---- MODULE Spec2Model ----
(***************************************************************************)
(* Result extraction of the GPC automation scripts.                        *)
(*                                                                         *)
(* extract_peak_results walks a results document line by line, recognises  *)
(* three-line measurement blocks (result-type marker, name, scalar) and    *)
(* builds a table peak -> name -> measurement.  The model keeps the text   *)
(* of the value and attribute tokens as character sequences, so that       *)
(* strip(), the sentinel comparison and float() are computed rather than   *)
(* assumed, and numbers as exact rationals <<numerator, denominator>>.     *)
(***************************************************************************)
EXTENDS Integers, Sequences, FiniteSets, TLC

VARIABLES variant, lines, i, peak_data, loc, exc, pc, result, report, summary_file,
          peaks_data, fmt, events, admin, experiment_id, retval, raised

vars == <<variant, lines, i, peak_data, loc, exc, pc, result, report, summary_file,
          peaks_data, fmt, events, admin, experiment_id, retval, raised>>

(***************************************************************************)
(* Text tokens and float()                                                 *)
(***************************************************************************)

\* the characters str.strip() removes
IsSpace(c) == c \in {" ", "\t"}

RECURSIVE LStrip(_)
LStrip(s) == IF s # <<>> /\ IsSpace(Head(s)) THEN LStrip(Tail(s)) ELSE s

RECURSIVE RStrip(_)
RStrip(s) ==
    IF s # <<>> /\ IsSpace(s[Len(s)]) THEN RStrip(SubSeq(s, 1, Len(s) - 1)) ELSE s

\* str.strip()
Strip(s) == LStrip(RStrip(s))

Digits == {"0", "1", "2", "3", "4", "5", "6", "7", "8", "9"}

DigitVal(c) ==
    CASE c = "0" -> 0 [] c = "1" -> 1 [] c = "2" -> 2 [] c = "3" -> 3
      [] c = "4" -> 4 [] c = "5" -> 5 [] c = "6" -> 6 [] c = "7" -> 7
      [] c = "8" -> 8 [] c = "9" -> 9

AllDigits(s) == \A k \in 1..Len(s) : s[k] \in Digits

\* int() of a digit string, as captured by (\d+)
RECURSIVE IntOf(_)
IntOf(s) ==
    IF s = <<>> THEN 0
    ELSE 10 * IntOf(SubSeq(s, 1, Len(s) - 1)) + DigitVal(s[Len(s)])

RECURSIVE Pow10(_)
Pow10(k) == IF k = 0 THEN 1 ELSE 10 * Pow10(k - 1)

Abs(x) == IF x < 0 THEN -x ELSE x

RECURSIVE Gcd(_, _)
Gcd(a, b) == IF b = 0 THEN a ELSE Gcd(b, a % b)

\* a rational in lowest terms with positive denominator
Rat(n, d) ==
    LET g == Gcd(Abs(n), Abs(d))
        s == IF d < 0 THEN -1 ELSE 1
    IN  <<(s * n) \div g, (s * d) \div g>>

RatDiv(a, b) == Rat(a[1] * b[2], a[2] * b[1])
RatMulInt(a, k) == Rat(a[1] * k, a[2])
RatIsZero(a) == a[1] = 0

\* position of the first character of s, from k on, that is in cs; 0 when none
RECURSIVE CharPos(_, _, _)
CharPos(s, cs, k) ==
    IF k > Len(s) THEN 0 ELSE IF s[k] \in cs THEN k ELSE CharPos(s, cs, k + 1)

Unsigned(s) == IF s # <<>> /\ Head(s) \in {"-", "+"} THEN Tail(s) ELSE s
IsNegative(s) == s # <<>> /\ Head(s) = "-"

\* the digits before and after the point and the decimal exponent ex: the
\* number, or ok = FALSE for the ValueError float() raises
ParseParts(ip, fp, neg, ex) ==
    IF AllDigits(ip) /\ AllDigits(fp) /\ Len(ip) + Len(fp) >= 1
    THEN [ok |-> TRUE,
          val |-> Rat((IF neg THEN -1 ELSE 1)
                        * (IntOf(ip) * Pow10(Len(fp)) + IntOf(fp))
                        * Pow10(IF ex > 0 THEN ex ELSE 0),
                      Pow10(Len(fp)) * Pow10(IF ex < 0 THEN -ex ELSE 0))]
    ELSE [ok |-> FALSE, val |-> <<0, 1>>]

\* the mantissa, split at its point
ParseSplit(body, dot, neg, ex) ==
    IF dot = 0 THEN ParseParts(body, <<>>, neg, ex)
    ELSE ParseParts(SubSeq(body, 1, dot - 1), SubSeq(body, dot + 1, Len(body)), neg, ex)

\* the exponent after "e": optional sign and at least one digit
ParseExponent(mant, neg, e) ==
    IF Len(Unsigned(e)) >= 1 /\ AllDigits(Unsigned(e))
    THEN ParseSplit(mant, CharPos(mant, {"."}, 1), neg,
                    (IF IsNegative(e) THEN -1 ELSE 1) * IntOf(Unsigned(e)))
    ELSE [ok |-> FALSE, val |-> <<0, 1>>]

\* the text after the sign, split at its exponent mark
ParseUnsigned(body, epos, neg) ==
    IF epos = 0 THEN ParseSplit(body, CharPos(body, {"."}, 1), neg, 0)
    ELSE ParseExponent(SubSeq(body, 1, epos - 1), neg,
                       SubSeq(body, epos + 1, Len(body)))

ParseSigned(s) ==
    ParseUnsigned(Unsigned(s), CharPos(Unsigned(s), {"e", "E"}, 1), IsNegative(s))

\* float(tok) on decimal text: surrounding blanks, optional sign, digits,
\* optional fraction, optional exponent
ParseFloat(tok) == ParseSigned(Strip(tok))

(***************************************************************************)
(* Number formatting                                                       *)
(*                                                                         *)
(* Python's format specs '.kf' and '.3e' round the exact value of the      *)
(* float to the nearest representable text, ties to the even digit.  The   *)
(* model formats the exact rational; a value that is a decimal tie is      *)
(* rendered as Python renders it only when it is a binary fraction.        *)
(***************************************************************************)

DigitChar(d) ==
    CASE d = 0 -> "0" [] d = 1 -> "1" [] d = 2 -> "2" [] d = 3 -> "3"
      [] d = 4 -> "4" [] d = 5 -> "5" [] d = 6 -> "6" [] d = 7 -> "7"
      [] d = 8 -> "8" [] d = 9 -> "9"

\* str() of a natural number
RECURSIVE NatStr(_)
NatStr(n) == IF n < 10 THEN <<DigitChar(n)>> ELSE NatStr(n \div 10) \o <<DigitChar(n % 10)>>

RECURSIVE ZeroPad(_, _)
ZeroPad(s, k) == IF Len(s) >= k THEN s ELSE ZeroPad(<<"0">> \o s, k)

\* n/d (n >= 0, d > 0) rounded to the nearest integer, ties to even
RoundHalfEven(n, d) ==
    (n \div d)
    + (IF 2 * (n % d) > d \/ (2 * (n % d) = d /\ (n \div d) % 2 = 1) THEN 1 ELSE 0)

\* sign, integer digits and k fractional digits of q / 10^k
FixedDigits(neg, q, k) ==
    (IF neg THEN <<"-">> ELSE <<>>)
    \o NatStr(q \div Pow10(k))
    \o (IF k = 0 THEN <<>> ELSE <<".">> \o ZeroPad(NatStr(q % Pow10(k)), k))

\* f"{r:.kf}"
FormatFixed(r, k) == FixedDigits(r[1] < 0, RoundHalfEven(Abs(r[1]) * Pow10(k), r[2]), k)

\* the decimal exponent of n/d >= 1
RECURSIVE Exp10(_, _)
Exp10(n, d) == IF n < 10 * d THEN 0 ELSE 1 + Exp10(n, 10 * d)

\* mantissa m (four digits, read as d.ddd) and exponent e
SciText(m, e) ==
    <<DigitChar(m \div 1000), ".">> \o ZeroPad(NatStr(m % 1000), 3)
    \o <<"e", "+">> \o ZeroPad(NatStr(e), 2)

\* a mantissa rounded up to 10.000 is renormalised
SciDigits(m, e) == IF m = 10000 THEN SciText(1000, e + 1) ELSE SciText(m, e)

FormatSci3At(r, e) ==
    SciDigits(IF e >= 3 THEN RoundHalfEven(r[1], r[2] * Pow10(e - 3))
              ELSE RoundHalfEven(r[1] * Pow10(3 - e), r[2]), e)

\* f"{r:.3e}" for r >= 1 (the formatter applies it to values >= 1000 only)
FormatSci3(r) == FormatSci3At(r, Exp10(r[1], r[2]))

\* PDI_DECIMAL_PLACES = 3, MW_DECIMAL_PLACES = 1
PDI_DECIMAL_PLACES == 3
MW_DECIMAL_PLACES == 1

\* the character U+00B1 (plus-minus sign)
PlusMinus == "+-"

RatGeqInt(r, k) == r[1] >= k * r[2]

\* faulty variant: if value > 1000
UsesScientificStrict(value) == value[1] > 1000 * value[2]

\* if value >= 1000
UsesScientific(value) == RatGeqInt(value, 1000)

\* formatted_value
FormattedValue(value) ==
    IF UsesScientific(value) THEN FormatSci3(value) ELSE FormatFixed(value, 1)

\* faulty variant: the precision is hardcoded
PrecisionHardcoded(v, extra_precision) == MW_DECIMAL_PLACES

\* precision = f".{PDI_DECIMAL_PLACES}f" if extra_precision else
\* f".{MW_DECIMAL_PLACES}f"; extract_molecular_weights has no such parameter
\* and always formats with .1f
Precision(v, extra_precision) ==
    IF v = "emw" THEN 1
    ELSE IF extra_precision THEN PDI_DECIMAL_PLACES ELSE MW_DECIMAL_PLACES

\* format_value_with_uncertainty(value, units, uncertainty_pct, extra_precision)
FormatValueWithUncertainty(v, value, uncertainty_pct, extra_precision) ==
    FormattedValue(value) \o <<" ", "(", PlusMinus>>
    \o FormatFixed(uncertainty_pct, Precision(v, extra_precision)) \o <<"%", ")">>

(***************************************************************************)
(* Document lines                                                          *)
(*                                                                         *)
(* A line is one of: a result-type marker <result type="T">, a name line   *)
(* <name>N</name>, a scalar line <scalar a="..." b="...">text</scalar>     *)
(* whose attributes appear in the order given by `order`, or other text.   *)
(***************************************************************************)

NoTok == <<>>

ResultLine(t) ==
    [kind |-> "result", type |-> t, name |-> "", order |-> <<>>, units |-> "",
     uncertainty |-> NoTok, peak |-> NoTok, text |-> NoTok]

NameLine(n) ==
    [kind |-> "name", type |-> "", name |-> n, order |-> <<>>, units |-> "",
     uncertainty |-> NoTok, peak |-> NoTok, text |-> NoTok]

ScalarLine(order, units, uncertainty, peak, text) ==
    [kind |-> "scalar", type |-> "", name |-> "", order |-> order, units |-> units,
     uncertainty |-> uncertainty, peak |-> peak, text |-> text]

TextLine ==
    [kind |-> "text", type |-> "", name |-> "", order |-> <<>>, units |-> "",
     uncertainty |-> NoTok, peak |-> NoTok, text |-> NoTok]

\* line l with a '<result type="t">' tag on the same line
WithMarker(l, t) == [l EXCEPT !.type = t]

\* line l with a '<name>n</name>' element on the same line
WithName(l, n) == [l EXCEPT !.name = n]

\* '<result type="T">' in line
HasMarker(l, t) == l.type = t

\* faulty variant: the name line is not tested for a <name> element
AnyLineMatches(l) == TRUE

\* re.search(r'<name>(.+?)</name>', name_line)
NameMatch(l) == l.name # ""

\* index of attribute a on the scalar line, 0 when absent
RECURSIVE AttrPos(_, _, _)
AttrPos(order, a, k) ==
    IF k > Len(order) THEN 0
    ELSE IF order[k] = a THEN k ELSE AttrPos(order, a, k + 1)

\* a="..." is followed, later on the line, by b="..."
Before(l, a, b) ==
    /\ AttrPos(l.order, a, 1) > 0
    /\ AttrPos(l.order, b, 1) > AttrPos(l.order, a, 1)

\* peak="(\d+)"
PeakDigits(l) == Len(l.peak) >= 1 /\ AllDigits(l.peak)

\* <scalar.*?units="([^"]*)".*?uncertainty="([^"]*)".*?peak="(\d+)".*?>([^<]*)</scalar>
MatchUnitsUncPeak(l) ==
    /\ Before(l, "units", "uncertainty")
    /\ Before(l, "uncertainty", "peak")
    /\ PeakDigits(l)

\* faulty variant: the fallback pattern for the second attribute order is missing
NoSecondPattern(l) == FALSE

\* <scalar.*?units="([^"]*)".*?peak="(\d+)".*?uncertainty="([^"]*)".*?>([^<]*)</scalar>
MatchUnitsPeakUnc(l) ==
    /\ Before(l, "units", "peak")
    /\ Before(l, "peak", "uncertainty")
    /\ PeakDigits(l)

\* <scalar.*?uncertainty="([^"]*)".*?peak="(\d+)".*?>([^<]*)</scalar>
MatchUncPeak(l) ==
    Before(l, "uncertainty", "peak") /\ PeakDigits(l)

\* <scalar.*?peak="(\d+)".*?uncertainty="([^"]*)".*?>([^<]*)</scalar>
MatchPeakUnc(l) ==
    Before(l, "peak", "uncertainty") /\ PeakDigits(l)

(***************************************************************************)
(* The table and the loop's local variables                                *)
(***************************************************************************)

EmptyTable == <<>>

NA == <<"n", "/", "a">>
INVALID == <<"~", "I", "n", "v", "a", "l", "i", "d">>

Variants == {"v2", "v1", "emw", "sep"}

\* the value texts the sentinel test of a variant rejects
Sentinels(v) == IF v \in {"v2", "sep"} THEN {NA, INVALID} ELSE {NA}

\* the polydispersity branch of v1 and emw calls float() on the text directly
PdiDirectFloat(v) == v \in {"v1", "emw"}

\* simple_experiment_processor has no rms radius branch
HasRmsBranch(v) == v # "sep"

\* locals of the loop body: <<>> is unbound, <<x>> is bound to x
Unbound == <<>>
NoLocals ==
    [name |-> Unbound, units |-> Unbound, uncertainty |-> Unbound,
     peak_num |-> Unbound, value_str |-> Unbound]

\* faulty variant: the ratio is not scaled to a percentage
PctNoScale(uncertainty, value) == RatDiv(uncertainty, value)

\* (uncertainty / value) * 100
PctUncertainty(uncertainty, value) == RatMulInt(RatDiv(uncertainty, value), 100)

\* faulty variant: peak_data[peak_num] = {name: m}, a fresh record each time
UpsertFresh(pd, peak_num, name, m) ==
    [p \in DOMAIN pd \cup {peak_num} |->
        IF p = peak_num THEN [n \in {name} |-> m] ELSE pd[p]]

\* faulty variant: peak_data[peak_num].setdefault(name, {...}), first writer wins
UpsertKeepsFirst(pd, peak_num, name, m) ==
    LET old == IF peak_num \in DOMAIN pd THEN pd[peak_num] ELSE <<>>
        rec == [n \in DOMAIN old \cup {name} |-> IF n \in DOMAIN old THEN old[n] ELSE m]
    IN  [p \in DOMAIN pd \cup {peak_num} |-> IF p = peak_num THEN rec ELSE pd[p]]

\* if peak_num not in peak_data: peak_data[peak_num] = {}
\* peak_data[peak_num][name] = {...}
Upsert(pd, peak_num, name, m) ==
    LET old == IF peak_num \in DOMAIN pd THEN pd[peak_num] ELSE <<>>
        rec == [n \in DOMAIN old \cup {name} |-> IF n = name THEN m ELSE old[n]]
    IN  [p \in DOMAIN pd \cup {peak_num} |-> IF p = peak_num THEN rec ELSE pd[p]]

(***************************************************************************)
(* One iteration of the scan loop                                          *)
(*                                                                         *)
(* The loop state is [pd, loc, exc]: the table, the locals, and the        *)
(* exception raised inside the try block ("" when none).                   *)
(***************************************************************************)

\* value_str != 'n/a' and value_str != '~Invalid'  (v1, emw: 'n/a' only)
IsSentinel(v, value_str) == value_str \in Sentinels(v)

\* pct_uncertainty = (uncertainty / value) * 100, then the upsert under
\* peak_data[peak_num][key]; value is the outcome of float(value_str)
StoreValue(st, key, units, uncertainty, peak_num, value) ==
    IF ~value.ok THEN [st EXCEPT !.exc = "ValueError"]
    ELSE IF RatIsZero(value.val) THEN [st EXCEPT !.exc = "ZeroDivisionError"]
    ELSE [st EXCEPT !.pd =
            Upsert(st.pd, peak_num, key,
                   [value |-> value.val, units |-> units,
                    uncertainty_pct |-> PctUncertainty(uncertainty, value.val)])]

\* value = float(value_str) and what follows it
StoreMeasurement(st, key, units, uncertainty, peak_num, value_str) ==
    StoreValue(st, key, units, uncertainty, peak_num, ParseFloat(value_str))

\* the locals bound by a match before float(uncertainty) is evaluated
LocalsBefore(l, sl, withUnits, first) ==
    [l EXCEPT !.units = IF withUnits THEN <<sl.units>> ELSE @,
              !.peak_num = IF first THEN @ ELSE <<IntOf(sl.peak)>>]

\* the locals bound by a match once all captures are converted
LocalsAfter(l, sl, withUnits, direct, unc) ==
    [l EXCEPT !.units = IF withUnits THEN <<sl.units>> ELSE @,
              !.uncertainty = <<unc>>,
              !.peak_num = <<IntOf(sl.peak)>>,
              !.value_str = IF direct THEN @ ELSE <<Strip(sl.text)>>]

\* faulty variant: the peak record is created before the sentinel test
CapturedKeyFirst(v, st, sl, withUnits, key, direct, first, unc) ==
    IF ~unc.ok
    THEN [st EXCEPT !.loc = LocalsBefore(st.loc, sl, withUnits, first),
                    !.exc = "ValueError"]
    ELSE IF ~direct /\ IsSentinel(v, Strip(sl.text))
    THEN [st EXCEPT !.loc = LocalsAfter(st.loc, sl, withUnits, direct, unc.val),
                    !.pd = [p \in DOMAIN st.pd \cup {IntOf(sl.peak)} |->
                               IF p \in DOMAIN st.pd THEN st.pd[p] ELSE <<>>]]
    ELSE StoreMeasurement(
            [st EXCEPT !.loc = LocalsAfter(st.loc, sl, withUnits, direct, unc.val)],
            key, IF withUnits THEN sl.units ELSE "", unc.val, IntOf(sl.peak),
            Strip(sl.text))

\* faulty variant: a sentinel text is recorded with a placeholder measurement
CapturedPlaceholder(v, st, sl, withUnits, key, direct, first, unc) ==
    IF ~unc.ok
    THEN [st EXCEPT !.loc = LocalsBefore(st.loc, sl, withUnits, first),
                    !.exc = "ValueError"]
    ELSE IF ~direct /\ IsSentinel(v, Strip(sl.text))
    THEN [st EXCEPT !.loc = LocalsAfter(st.loc, sl, withUnits, direct, unc.val),
                    !.pd = Upsert(st.pd, IntOf(sl.peak), key,
                                  [value |-> <<0, 1>>,
                                   units |-> IF withUnits THEN sl.units ELSE "",
                                   uncertainty_pct |-> <<0, 1>>])]
    ELSE StoreMeasurement(
            [st EXCEPT !.loc = LocalsAfter(st.loc, sl, withUnits, direct, unc.val)],
            key, IF withUnits THEN sl.units ELSE "", unc.val, IntOf(sl.peak),
            Strip(sl.text))

\* a matched scalar line: the captures, the sentinel test and the store.
\* first: the first pattern matched; unc: the outcome of float(uncertainty)
Captured(v, st, sl, withUnits, key, direct, first, unc) ==
    IF ~unc.ok
    THEN [st EXCEPT !.loc = LocalsBefore(st.loc, sl, withUnits, first),
                    !.exc = "ValueError"]
    ELSE IF ~direct /\ IsSentinel(v, Strip(sl.text))
    THEN [st EXCEPT !.loc = LocalsAfter(st.loc, sl, withUnits, direct, unc.val)]
    ELSE StoreMeasurement(
            [st EXCEPT !.loc = LocalsAfter(st.loc, sl, withUnits, direct, unc.val)],
            key, IF withUnits THEN sl.units ELSE "", unc.val, IntOf(sl.peak),
            Strip(sl.text))

\* faulty variant: no 'if scalar_match' guard, so that a scalar line neither
\* pattern matches is stored with the locals an earlier block left bound
ProcessScalarStale(v, st, sl, withUnits, key, direct) ==
    IF IF withUnits THEN MatchUnitsUncPeak(sl) ELSE MatchUncPeak(sl)
    THEN Captured(v, st, sl, withUnits, key, direct, TRUE, ParseFloat(sl.uncertainty))
    ELSE IF IF withUnits THEN MatchUnitsPeakUnc(sl) ELSE MatchPeakUnc(sl)
    THEN Captured(v, st, sl, withUnits, key, direct, FALSE, ParseFloat(sl.uncertainty))
    ELSE IF /\ st.loc.units # Unbound /\ st.loc.uncertainty # Unbound
            /\ st.loc.peak_num # Unbound /\ st.loc.value_str # Unbound
    THEN StoreMeasurement(st, key, IF withUnits THEN st.loc.units[1] ELSE "",
                          st.loc.uncertainty[1], st.loc.peak_num[1], st.loc.value_str[1])
    ELSE st

\* The two regex attempts on the scalar line.  withUnits: the patterns of the
\* molar mass and rms radius branches (units captured); otherwise the
\* polydispersity patterns (units stored as '').  direct: float() applied to
\* the text with no sentinel test.
ProcessScalar(v, st, sl, withUnits, key, direct) ==
    IF IF withUnits THEN MatchUnitsUncPeak(sl) ELSE MatchUncPeak(sl)
    THEN Captured(v, st, sl, withUnits, key, direct, TRUE, ParseFloat(sl.uncertainty))
    ELSE IF IF withUnits THEN MatchUnitsPeakUnc(sl) ELSE MatchPeakUnc(sl)
    THEN Captured(v, st, sl, withUnits, key, direct, FALSE, ParseFloat(sl.uncertainty))
    ELSE st

\* i + 1 < len(lines) and i + 2 < len(lines), i counted from 0
HasTwoMore(ls, k) == k + 1 < Len(ls) /\ k + 2 < Len(ls)

\* line k of the document, k counted from 0
LineAt(ls, k) == ls[k + 1]

\* if '<result type="molar mass">' in line: ...
MolarMassBranch(v, ls, k, st) ==
    IF HasTwoMore(ls, k) /\ NameMatch(LineAt(ls, k + 1))
    THEN ProcessScalar(v, [st EXCEPT !.loc.name = <<LineAt(ls, k + 1).name>>],
                       LineAt(ls, k + 2), TRUE, LineAt(ls, k + 1).name, FALSE)
    ELSE st

\* faulty variant: the polydispersity branch stores the units attribute
PolydispersityKeepsUnits(v, ls, k, st) ==
    IF HasTwoMore(ls, k) /\ LineAt(ls, k + 1).name = "Mw/Mn"
    THEN ProcessScalar(v, st, LineAt(ls, k + 2), TRUE, "Mw/Mn", PdiDirectFloat(v))
    ELSE st

\* elif '<result type="polydispersity">' in line: ...
PolydispersityBranch(v, ls, k, st) ==
    IF HasTwoMore(ls, k) /\ LineAt(ls, k + 1).name = "Mw/Mn"
    THEN ProcessScalar(v, st, LineAt(ls, k + 2), FALSE, "Mw/Mn", PdiDirectFloat(v))
    ELSE st

\* faulty variant: the rms radius branch without the == 'rz' filter
RmsRadiusAnyName(v, ls, k, st) ==
    IF HasTwoMore(ls, k) /\ NameMatch(LineAt(ls, k + 1))
    THEN ProcessScalar(v, st, LineAt(ls, k + 2), TRUE, LineAt(ls, k + 1).name, FALSE)
    ELSE st

\* elif '<result type="rms radius">' in line: ...
RmsRadiusBranch(v, ls, k, st) ==
    IF /\ HasTwoMore(ls, k)
       /\ NameMatch(LineAt(ls, k + 1))
       /\ LineAt(ls, k + 1).name = "rz"
    THEN ProcessScalar(v, IF v = "emw" THEN [st EXCEPT !.loc.name = <<"rz">>] ELSE st,
                       LineAt(ls, k + 2), TRUE, "rz", FALSE)
    ELSE st

\* faulty variant: every result tag is taken for a molar mass block
AnyResultTag(l) == l.type # ""

IsMolarMass(l) == HasMarker(l, "molar mass")
IsPolydispersity(l) == ~IsMolarMass(l) /\ HasMarker(l, "polydispersity")
IsRmsRadius(v, l) ==
    ~IsMolarMass(l) /\ ~HasMarker(l, "polydispersity")
    /\ HasRmsBranch(v) /\ HasMarker(l, "rms radius")

\* the body of `for i, line in enumerate(lines)` for line k
ScanLine(v, ls, k, st) ==
    IF IsMolarMass(LineAt(ls, k)) THEN MolarMassBranch(v, ls, k, st)
    ELSE IF IsPolydispersity(LineAt(ls, k)) THEN PolydispersityBranch(v, ls, k, st)
    ELSE IF IsRmsRadius(v, LineAt(ls, k)) THEN RmsRadiusBranch(v, ls, k, st)
    ELSE st

\* faulty variant: the cursor jumps over the three lines of a block
SkipIndex(k) == k + 3

\* for i, line in enumerate(lines): the index of the next iteration
NextIndex(k) == k + 1

\* the try block from line k on: the loop stops at the first exception
RECURSIVE ScanFrom(_, _, _, _)
ScanFrom(v, ls, k, st) ==
    IF k >= Len(ls) \/ st.exc # "" THEN st
    ELSE ScanFrom(v, ls, NextIndex(k), ScanLine(v, ls, k, st))

\* faulty variant: except ValueError
CatchesValueErrorOnly(e) == e = "ValueError"

\* except Exception: the classes the handler catches
CaughtByHandler(e) == e \in {"ValueError", "ZeroDivisionError"}

\* except Exception: log(...); return {}
ExceptResult == EmptyTable

\* extract_peak_results(xml_content) as a function of the document's lines
ExtractPeakResults(v, ls) ==
    LET st == ScanFrom(v, ls, 0, [pd |-> EmptyTable, loc |-> NoLocals, exc |-> ""])
    IN  IF st.exc # "" THEN ExceptResult ELSE st.pd

(***************************************************************************)
(* extract_molecular_weights_from_xml (test_real_datasets)                 *)
(*                                                                         *)
(* The result is a list of per-peak records in order of discovery; each    *)
(* float() has its own try/except ValueError: continue.                    *)
(***************************************************************************)

None == <<>>

\* the record appended for a peak met for the first time
NewPeak(peak_number, units) ==
    [peak_number |-> peak_number, mn |-> None, mw |-> None, mp |-> None,
     mv |-> None, mz |-> None, mz1 |-> None, mavg |-> None, pdi |-> None,
     units |-> units]

\* next((p for p in peaks_data if p['peak_number'] == peak_number), None):
\* the index of the record, 0 for None
RECURSIVE FindPeak(_, _, _)
FindPeak(pd, peak_number, k) ==
    IF k > Len(pd) THEN 0
    ELSE IF pd[k].peak_number = peak_number THEN k
    ELSE FindPeak(pd, peak_number, k + 1)

\* if name == 'Mn': peak_data['mn'] = ... elif ...: the field a name is stored in
FieldOf(name) ==
    CASE name = "Mn" -> "mn" [] name = "Mw" -> "mw" [] name = "Mp" -> "mp"
      [] name = "Mv" -> "mv" [] name = "Mz" -> "mz" [] name = "Mz+1" -> "mz1"
      [] name = "M(avg)" -> "mavg" [] OTHER -> ""

SetField(rec, f, text) == IF f = "" THEN rec ELSE [rec EXCEPT ![f] = text]

\* if not peak_data: peak_data = {...}; peaks_data.append(peak_data)
FindOrCreate(pd, peak_number, units) ==
    IF FindPeak(pd, peak_number, 1) = 0 THEN Append(pd, NewPeak(peak_number, units))
    ELSE pd

\* peak_data[field] = f"{value:.0f}"
StoreMass(pd, peak_number, name, value) ==
    [pd EXCEPT ![FindPeak(pd, peak_number, 1)] =
        SetField(@, FieldOf(name), FormatFixed(value, 0))]

\* <scalar.*?units="([^"]*)".*?peak="(\d+)".*?>([^<]*)</scalar>
MatchUnitsPeak(l) == l.kind = "scalar" /\ Before(l, "units", "peak") /\ PeakDigits(l)

\* <scalar.*?peak="(\d+)".*?>([^<]*)</scalar>
MatchPeak(l) == l.kind = "scalar" /\ AttrPos(l.order, "peak", 1) > 0 /\ PeakDigits(l)

\* if '<result type="molar mass">' in line: ...
MolarMassRecord(ls, k, pd) ==
    IF /\ k + 1 < Len(ls)
       /\ NameMatch(LineAt(ls, k + 1))
       /\ k + 2 < Len(ls)
       /\ MatchUnitsPeak(LineAt(ls, k + 2))
       /\ Strip(LineAt(ls, k + 2).text) # NA
       /\ ParseFloat(LineAt(ls, k + 2).text).ok
    THEN StoreMass(FindOrCreate(pd, IntOf(LineAt(ls, k + 2).peak), LineAt(ls, k + 2).units),
                   IntOf(LineAt(ls, k + 2).peak), LineAt(ls, k + 1).name,
                   ParseFloat(LineAt(ls, k + 2).text).val)
    ELSE pd

\* elif '<result type="polydispersity">' in line: ...  The value is stored
\* only if peak_data: the record of the peak exists already
PolydispersityRecord(ls, k, pd) ==
    IF /\ k + 1 < Len(ls)
       /\ LineAt(ls, k + 1).kind = "name"
       /\ LineAt(ls, k + 1).name = "Mw/Mn"
       /\ k + 2 < Len(ls)
       /\ MatchPeak(LineAt(ls, k + 2))
       /\ ParseFloat(LineAt(ls, k + 2).text).ok
       /\ FindPeak(pd, IntOf(LineAt(ls, k + 2).peak), 1) # 0
    THEN [pd EXCEPT ![FindPeak(pd, IntOf(LineAt(ls, k + 2).peak), 1)].pdi =
            FormatFixed(ParseFloat(LineAt(ls, k + 2).text).val, 3)]
    ELSE pd

\* the body of the loop of extract_molecular_weights_from_xml for line k
RecordLine(ls, k, pd) ==
    IF IsMolarMass(LineAt(ls, k)) THEN MolarMassRecord(ls, k, pd)
    ELSE IF IsPolydispersity(LineAt(ls, k)) THEN PolydispersityRecord(ls, k, pd)
    ELSE pd

RECURSIVE RecordFrom(_, _, _)
RecordFrom(ls, k, pd) ==
    IF k >= Len(ls) THEN pd ELSE RecordFrom(ls, k + 1, RecordLine(ls, k, pd))

\* extract_molecular_weights_from_xml(xml_content) as a function of the lines
ExtractMolecularWeightsFromXml(ls) == RecordFrom(ls, 0, <<>>)

(***************************************************************************)
(* The report of display_and_save_results, display_peak_results and       *)
(* display_results                                                         *)
(***************************************************************************)

RECURSIVE KeysDescending(_)
\* faulty variant: sorted(peak_data.keys(), reverse=True)
KeysDescending(S) ==
    IF S = {} THEN <<>>
    ELSE LET m == CHOOSE x \in S : \A y \in S : x >= y
         IN  <<m>> \o KeysDescending(S \ {m})

RECURSIVE SortedKeys(_)
\* sorted(peak_data.keys())
SortedKeys(S) ==
    IF S = {} THEN <<>>
    ELSE LET m == CHOOSE x \in S : \A y \in S : x <= y
         IN  <<m>> \o SortedKeys(S \ {m})

Item(kind, peak, key) == [kind |-> kind, peak |-> peak, key |-> key, text |-> <<>>]

\* line = f"  {key}: {formatted}": a measurement line and its formatted text
MeasurementLine(v, peak_num, key, m, extra_precision) ==
    [kind |-> "line", peak |-> peak_num, key |-> key,
     text |-> FormatValueWithUncertainty(v, m.value, m.uncertainty_pct, extra_precision)]

\* extract_molecular_weights calls the formatter without extra_precision
PdiExtraPrecision(v) == v # "emw"

\* display_results of simple_experiment_processor has no RMS radius section
HasRadiusSection(v) == v # "sep"

\* faulty variant: the lines are emitted in the order the record holds them,
\* here radius, polydispersity, then the masses from Mp to Mn
PeakSectionUnordered(v, peak_num, data) ==
    LET has(k) == k \in DOMAIN data
        line(k, extra) ==
            IF has(k) THEN <<MeasurementLine(v, peak_num, k, data[k], extra)>> ELSE <<>>
    IN  <<Item("peak", peak_num, ""), Item("divider", peak_num, "")>>
        \o (IF HasRadiusSection(v) /\ has("rz")
            THEN <<Item("heading", peak_num, "RMS radius moments")>> \o line("rz", FALSE)
            ELSE <<>>)
        \o (IF has("Mw/Mn")
            THEN <<Item("heading", peak_num, "Polydispersity")>>
                 \o line("Mw/Mn", PdiExtraPrecision(v))
            ELSE <<>>)
        \o (IF has("Mn") \/ has("Mw") \/ has("Mp") \/ has("Mz")
            THEN <<Item("heading", peak_num, "Molar mass moments")>>
                 \o line("Mp", FALSE) \o line("Mw", FALSE) \o line("Mn", FALSE)
            ELSE <<>>)

\* the lines one peak adds to the report
PeakSection(v, peak_num, data) ==
    LET has(k) == k \in DOMAIN data
        line(k, extra) ==
            IF has(k) THEN <<MeasurementLine(v, peak_num, k, data[k], extra)>> ELSE <<>>
    IN  <<Item("peak", peak_num, ""), Item("divider", peak_num, "")>>
        \o (IF has("Mn") \/ has("Mw") \/ has("Mp") \/ has("Mz")
            THEN <<Item("heading", peak_num, "Molar mass moments"),
                   Item("blank", peak_num, "")>>
                 \o line("Mn", FALSE) \o line("Mw", FALSE) \o line("Mp", FALSE)
                 \o <<Item("blank", peak_num, "")>>
            ELSE <<>>)
        \o (IF has("Mw/Mn")
            THEN <<Item("heading", peak_num, "Polydispersity"),
                   Item("blank", peak_num, "")>>
                 \o line("Mw/Mn", PdiExtraPrecision(v))
                 \o <<Item("blank", peak_num, "")>>
            ELSE <<>>)
        \o (IF HasRadiusSection(v) /\ has("rz")
            THEN <<Item("heading", peak_num, "RMS radius moments"),
                   Item("blank", peak_num, "")>>
                 \o line("rz", FALSE) \o <<Item("blank", peak_num, "")>>
            ELSE <<>>)

RECURSIVE PeakSections(_, _, _)
PeakSections(v, pd, keys) ==
    IF keys = <<>> THEN <<>>
    ELSE PeakSection(v, Head(keys), pd[Head(keys)]) \o PeakSections(v, pd, Tail(keys))

\* the report: summary_lines of display_and_save_results, the lines printed
\* by display_peak_results and display_results
SummaryLines(v, pd) ==
    <<Item("banner", 0, ""), Item("title", 0, ""), Item("banner", 0, "")>>
    \o PeakSections(v, pd, SortedKeys(DOMAIN pd))

(***************************************************************************)
(* Input documents                                                         *)
(***************************************************************************)

MaxBlocks == 3

T0 == <<"0">>
T1 == <<"1">>
T2 == <<"2">>
T3 == <<"3">>
T15 == <<"1", "5">>
T30 == <<"3", "0">>
T2p5 == <<"2", ".", "5">>
T1p5e1 == <<"1", ".", "5", "e", "+", "0", "1">>
Tabc == <<"a", "b", "c">>
TpadNA == <<" ", "n", "/", "a", " ">>
T300 == <<"3", "0", "0">>
T600 == <<"6", "0", "0">>
T15000 == <<"1", "5", "0", "0", "0">>
T30000 == <<"3", "0", "0", "0", "0">>
T2p0 == <<"2", ".", "0">>
T0p04 == <<"0", ".", "0", "4">>

UUP == <<"units", "uncertainty", "peak">>
UPU == <<"units", "peak", "uncertainty">>
UP == <<"uncertainty", "peak">>
PU == <<"peak", "uncertainty">>
PUU == <<"peak", "units", "uncertainty">>

Block(type, name, scalar) == <<ResultLine(type), NameLine(name), scalar>>

\* scalar lines: both attribute orders with numeric, zero, sentinel and
\* non-numeric texts; a non-numeric uncertainty; no units attribute; an
\* order neither pattern accepts; peaks 2 and 0; a non-digit peak
Scalars ==
    {ScalarLine(o, "g/mol", T3, T1, t) :
        o \in {UUP, UPU}, t \in {T15, T0, NA, INVALID, Tabc}}
    \cup {ScalarLine(UPU, "g/mol", T3, T1, T2p5),
          ScalarLine(UUP, "g/mol", T3, T1, T1p5e1),
          ScalarLine(UUP, "g/mol", T3, T1, TpadNA)}
    \cup {ScalarLine(UUP, "g/mol", Tabc, T1, t) : t \in {T15, NA}}
    \cup {ScalarLine(o, "", T3, T1, T15) : o \in {UP, PU}}
    \cup {ScalarLine(PUU, "g/mol", T3, T1, T15),
          ScalarLine(UUP, "nm", T3, T2, T15),
          ScalarLine(UUP, "g/mol", T3, T0, T15),
          ScalarLine(UUP, "g/mol", T3, Tabc, T15)}

\* result types with the names tried under each; "mass fraction" is a type
\* the extractor does not enumerate
TypeNames ==
    {<<"molar mass", "Mn">>, <<"molar mass", "Mp">>, <<"molar mass", "Mz">>,
     <<"molar mass", "Mw/Mn">>, <<"molar mass", "rz">>,
     <<"polydispersity", "Mw/Mn">>, <<"polydispersity", "Mn">>,
     <<"rms radius", "rz">>, <<"rms radius", "rw">>, <<"rms radius", "Mn">>,
     <<"mass fraction", "Mn">>}

AnyBlocks == {Block(tn[1], tn[2], s) : tn \in TypeNames, s \in Scalars}

\* well-formed blocks that every variant records
PlainList ==
    <<Block("molar mass", "Mn", ScalarLine(UUP, "g/mol", T3, T1, T15)),
      Block("molar mass", "Mw", ScalarLine(UPU, "g/mol", T3, T1, T30)),
      Block("rms radius", "rz", ScalarLine(UUP, "nm", T2, T2, T30))>>

RECURSIVE PlainSeq(_)
\* the blocks of PlainList with index in S, in the order of the list
PlainSeq(S) ==
    IF S = {} THEN <<>>
    ELSE LET m == CHOOSE x \in S : \A y \in S : x <= y
         IN  <<PlainList[m]>> \o PlainSeq(S \ {m})

RECURSIVE Flatten(_)
Flatten(bs) == IF bs = <<>> THEN <<>> ELSE Head(bs) \o Flatten(Tail(bs))

\* ps with block b inserted as its p-th element
InsertAt(ps, p, b) == SubSeq(ps, 1, p - 1) \o <<b>> \o SubSeq(ps, p, Len(ps))

\* sequences of at most n blocks: blocks of PlainList and, anywhere among
\* them, one block of AnyBlocks
BlockSeqs(n) ==
    {<<>>} \cup
    UNION {{InsertAt(PlainSeq(S), p, b) : p \in 1..(Cardinality(S) + 1), b \in AnyBlocks} :
           S \in {T \in SUBSET (1..Len(PlainList)) : Cardinality(T) < n}}

\* the document of the end-to-end scenario: Mn 15000 +- 300 and Mw 30000 +-
\* 600 in g/mol and Mw/Mn 2.0 +- 0.04, all of peak 1
EndToEnd ==
    <<Block("molar mass", "Mn", ScalarLine(UUP, "g/mol", T300, T1, T15000)),
      Block("molar mass", "Mw", ScalarLine(UUP, "g/mol", T600, T1, T30000)),
      Block("polydispersity", "Mw/Mn", ScalarLine(UP, "", T0p04, T1, T2p0))>>

\* the result types the extractor enumerates, each with a name it records
RecognizedPairs ==
    {<<"molar mass", "Mp">>, <<"polydispersity", "Mw/Mn">>, <<"rms radius", "rz">>}

\* two scalar lines every branch accepts, one per attribute order
ScalarA == ScalarLine(UUP, "g/mol", T3, T1, T2p5)
ScalarB == ScalarLine(UPU, "nm", T3, T2, T15)

\* the end of a document without a final newline: a marker on the last
\* line, on the second-to-last line, and on the third-to-last line
Tails ==
    UNION {{<<ResultLine(tn[1])>>,
            <<ResultLine(tn[1]), NameLine(tn[2])>>,
            <<ResultLine(tn[1]), NameLine(tn[2]), ScalarA>>} : tn \in RecognizedPairs}

\* a marker whose next line has no <name> element
Nameless ==
    UNION {{<<ResultLine(tn[1]), TextLine, ScalarA>>,
            <<ResultLine(tn[1]), ScalarB, ScalarA>>} : tn \in RecognizedPairs}

\* a marker and a name whose third line matches neither attribute order
NoScalar ==
    UNION {{<<ResultLine(tn[1]), NameLine(tn[2]), ScalarLine(PUU, "g/mol", T3, T1, T15)>>,
            <<ResultLine(tn[1]), NameLine(tn[2]), TextLine>>} : tn \in RecognizedPairs}

\* a marker on the line after a marker: alone on its line, and on the name
\* line of a block that is itself recorded
MarkerOnNameLine ==
    UNION {{<<ResultLine(a[1]), ResultLine(b[1]), NameLine(b[2]), ScalarB>>,
            <<ResultLine(a[1]), WithMarker(NameLine(a[2]), b[1]),
              WithName(ScalarA, b[2]), ScalarB>>} :
           a \in RecognizedPairs, b \in RecognizedPairs}

\* a marker two lines after a marker: alone on its line, and on the scalar
\* line of a block that is itself recorded
MarkerOnScalarLine ==
    UNION {{<<ResultLine(a[1]), NameLine(a[2]), ResultLine(b[1]), NameLine(b[2]), ScalarB>>,
            <<ResultLine(a[1]), NameLine(a[2]), WithMarker(ScalarA, b[1]),
              NameLine(b[2]), ScalarB>>} :
           a \in RecognizedPairs, b \in RecognizedPairs}

\* name and scalar lines under no marker or under a type the extractor does
\* not enumerate, and a block whose value is not a number
Strays ==
    {<<NameLine("Mn"), ScalarA>>,
     <<ResultLine("mass fraction"), NameLine("Mn"), ScalarA>>,
     <<ResultLine("molar mass"), NameLine("Mn"), ScalarLine(UUP, "g/mol", T3, T1, Tabc)>>}

Fragments == Nameless \cup NoScalar \cup MarkerOnNameLine \cup MarkerOnScalarLine \cup Strays

\* documents of fewer than n whole blocks of PlainList with one fragment
\* among them, or cut short after them
FragmentDocs(n) ==
    UNION {{Flatten(InsertAt(PlainSeq(S), p, f)) \o <<TextLine>> :
                p \in 1..(Cardinality(S) + 1), f \in Fragments}
           \cup {Flatten(PlainSeq(S)) \o f : f \in Tails} :
           S \in {T \in SUBSET (1..Len(PlainList)) : Cardinality(T) < n}}

\* xml_content.split('\n') of a document made of these blocks and ending in
\* a newline: the empty document splits into one empty line
LinesOf(bs) == Flatten(bs) \o <<TextLine>>

(***************************************************************************)
(* The state machine                                                       *)
(***************************************************************************)

\* no call of format_value_with_uncertainty is in progress
NoCall == [at |-> "none"]

InitCommon ==
    /\ i = 0
    /\ peak_data = EmptyTable
    /\ loc = NoLocals
    /\ exc = ""
    /\ pc = "scan"
    /\ result = EmptyTable
    /\ report = <<>>
    /\ summary_file = "none"
    /\ peaks_data = <<>>
    /\ events = <<>>
    /\ admin = FALSE
    /\ experiment_id = None
    /\ retval = "none"
    /\ raised = {}
    /\ fmt = NoCall

Init ==
    /\ variant = "v2"
    /\ lines \in {LinesOf(bs) : bs \in BlockSeqs(MaxBlocks) \cup {EndToEnd}}
    /\ InitCommon

InitVariants ==
    /\ variant \in Variants
    /\ lines \in {LinesOf(bs) : bs \in BlockSeqs(MaxBlocks - 1)}
    /\ InitCommon

InitFragments ==
    /\ variant \in Variants
    /\ lines \in FragmentDocs(MaxBlocks)
    /\ InitCommon

\* the loop goes on to the next line, or leaves the try block
Continue(st) ==
    /\ peak_data' = st.pd
    /\ loc' = st.loc
    /\ exc' = st.exc
    /\ IF st.exc # "" THEN pc' = "except" /\ i' = i ELSE pc' = pc /\ i' = NextIndex(i)
    /\ UNCHANGED <<variant, lines, result, report, summary_file, peaks_data, fmt, events,
                   admin, experiment_id, retval, raised>>

\* faulty variant: if peak_data is not None
AlwaysTruthy(t) == TRUE

\* if peak_data: a dict is true when it is not empty
Truthy(t) == DOMAIN t # {}

\* one iteration of the for loop on lines[i]
Iterate ==
    Continue(ScanLine(variant, lines, i, [pd |-> peak_data, loc |-> loc, exc |-> ""]))

ScanMolarMass ==
    /\ pc = "scan" /\ i < Len(lines)
    /\ IsMolarMass(LineAt(lines, i))
    /\ Iterate

ScanPolydispersity ==
    /\ pc = "scan" /\ i < Len(lines)
    /\ IsPolydispersity(LineAt(lines, i))
    /\ Iterate

ScanRmsRadius ==
    /\ pc = "scan" /\ i < Len(lines)
    /\ IsRmsRadius(variant, LineAt(lines, i))
    /\ Iterate

ScanOther ==
    /\ pc = "scan" /\ i < Len(lines)
    /\ ~IsMolarMass(LineAt(lines, i))
    /\ ~IsPolydispersity(LineAt(lines, i))
    /\ ~IsRmsRadius(variant, LineAt(lines, i))
    /\ Iterate

\* return peak_data
ReturnTable ==
    /\ pc = "scan" /\ i >= Len(lines)
    /\ result' = peak_data
    /\ pc' = "returned"
    /\ UNCHANGED <<variant, lines, i, peak_data, loc, exc, report, summary_file,
                   peaks_data, fmt, events,
                   admin, experiment_id, retval, raised>>

\* except Exception as e: log(...); return {}
ExceptHandler ==
    /\ pc = "except"
    /\ CaughtByHandler(exc)
    /\ result' = ExceptResult
    /\ pc' = "returned"
    /\ UNCHANGED <<variant, lines, i, peak_data, loc, exc, report, summary_file,
                   peaks_data, fmt, events,
                   admin, experiment_id, retval, raised>>

\* display_and_save_results, "Save summary to file": one open of the summary
\* file for writing inside a try block; the saved message is logged when the
\* write went through, the warning when open or write raised.
SaveSummaryRetry(written) ==
    IF written THEN <<"open", "log saved">>
               ELSE <<"open", "open", "log warning">>

SaveSummary(written) ==
    IF written THEN <<"open", "log saved">>
               ELSE <<"open", "log warning">>

\* main: if peak_data: display_and_save_results(peak_data, run_results_folder)
DisplayAndSave ==
    /\ pc = "returned"
    /\ Truthy(result)
    /\ report' = SummaryLines(variant, result)
    /\ IF variant \in {"v2", "v1"}
       THEN \E written \in BOOLEAN :
               /\ summary_file' = IF written THEN "written" ELSE "failed"
               /\ events' = SaveSummary(written) \o <<"banner">>
       ELSE /\ summary_file' = summary_file
            /\ events' = events
    /\ pc' = "displayed"
    /\ UNCHANGED <<variant, lines, i, peak_data, loc, exc, result, peaks_data, fmt,
                   admin, experiment_id, retval, raised>>

\* main: else: log("No molecular weight data found in XML")
NoData ==
    /\ pc = "returned"
    /\ ~Truthy(result)
    /\ pc' = "nodata"
    /\ UNCHANGED <<variant, lines, i, peak_data, loc, exc, result, report, summary_file,
                   peaks_data, fmt, events,
                   admin, experiment_id, retval, raised>>

NextExtract ==
    \/ ScanMolarMass
    \/ ScanPolydispersity
    \/ ScanRmsRadius
    \/ ScanOther
    \/ ReturnTable
    \/ ExceptHandler

Next == NextExtract \/ DisplayAndSave \/ NoData

Spec == Init /\ [][Next]_vars

SpecFragments == InitFragments /\ [][NextExtract]_vars

SpecVariants == InitVariants /\ [][NextExtract]_vars

\* the extractor and the report of every script
SpecReports == InitVariants /\ [][Next]_vars

(***************************************************************************)
(* The state machine of extract_molecular_weights_from_xml                 *)
(***************************************************************************)

\* blocks with pairwise distinct peak/name pairs: masses and polydispersity
\* of two peaks, a non-numeric and a sentinel value, a name and a type the
\* function does not record
DatasetBlocks ==
    {Block("molar mass", "Mn", ScalarLine(UUP, "g/mol", T3, T1, T15)),
     Block("molar mass", "Mw", ScalarLine(UPU, "g/mol", T3, T1, T30)),
     Block("polydispersity", "Mw/Mn", ScalarLine(UP, "", T3, T1, T2p5)),
     Block("molar mass", "Mn", ScalarLine(UUP, "g/mol", T3, T2, T15)),
     Block("polydispersity", "Mw/Mn", ScalarLine(PU, "", T3, T2, T1p5e1)),
     Block("molar mass", "Mp", ScalarLine(UUP, "g/mol", T3, T1, Tabc)),
     Block("molar mass", "Mz", ScalarLine(UUP, "g/mol", T3, T2, NA)),
     Block("polydispersity", "Mn", ScalarLine(UP, "", T3, T1, T15)),
     Block("rms radius", "rz", ScalarLine(UUP, "nm", T2, T2, T30))}

\* sequences of at most n different blocks, in every order
DatasetSeqs(n) ==
    UNION {{bs \in [1..k -> DatasetBlocks] :
                \A a, b \in 1..k : a # b => bs[a] # bs[b]} : k \in 0..n}

InitDatasets ==
    /\ variant = "trd"
    /\ lines \in {LinesOf(bs) : bs \in DatasetSeqs(MaxBlocks)}
    /\ InitCommon

\* one iteration of the loop on lines[i]
Record ==
    /\ peaks_data' = RecordLine(lines, i, peaks_data)
    /\ i' = i + 1
    /\ UNCHANGED <<variant, lines, peak_data, loc, exc, pc, result, report,
                   summary_file, fmt, events,
                   admin, experiment_id, retval, raised>>

RecordMolarMass ==
    /\ pc = "scan" /\ i < Len(lines)
    /\ IsMolarMass(LineAt(lines, i))
    /\ Record

RecordPolydispersity ==
    /\ pc = "scan" /\ i < Len(lines)
    /\ IsPolydispersity(LineAt(lines, i))
    /\ Record

RecordOther ==
    /\ pc = "scan" /\ i < Len(lines)
    /\ ~IsMolarMass(LineAt(lines, i))
    /\ ~IsPolydispersity(LineAt(lines, i))
    /\ Record

\* return peaks_data
ReturnList ==
    /\ pc = "scan" /\ i >= Len(lines)
    /\ pc' = "returned"
    /\ UNCHANGED <<variant, lines, i, peak_data, loc, exc, result, report,
                   summary_file, peaks_data, fmt, events,
                   admin, experiment_id, retval, raised>>

NextDatasets == RecordMolarMass \/ RecordPolydispersity \/ RecordOther \/ ReturnList

SpecDatasets == InitDatasets /\ [][NextDatasets]_vars

(***************************************************************************)
(* Calls of format_value_with_uncertainty                                  *)
(***************************************************************************)

\* values around the threshold 1000, zero, negative values, a decimal tie
FormatValues ==
    {<<0, 1>>, <<1, 4>>, <<2, 1>>, <<223, 10>>, <<9999, 10>>, <<19999, 20>>,
     <<1000, 1>>, <<2001, 2>>, <<15000, 1>>, <<107858, 5>>, <<99996, 1>>,
     <<-5, 2>>, <<-1500, 1>>}

FormatPcts == {<<0, 1>>, <<6, 5>>, <<2, 1>>, <<11, 24>>, <<20, 3>>, <<-4, 5>>, <<100, 1>>}

InitFormat ==
    /\ variant \in Variants
    /\ fmt \in {[at |-> "called", value |-> x, uncertainty_pct |-> u,
                 extra_precision |-> e, out |-> <<>>] :
                    x \in FormatValues, u \in FormatPcts, e \in BOOLEAN}
    /\ variant = "emw" => ~fmt.extra_precision
    /\ lines = <<TextLine>>
    /\ i = 0
    /\ peak_data = EmptyTable
    /\ loc = NoLocals
    /\ exc = ""
    /\ pc = "format"
    /\ result = EmptyTable
    /\ report = <<>>
    /\ summary_file = "none"
    /\ peaks_data = <<>>
    /\ events = <<>>
    /\ admin = FALSE
    /\ experiment_id = None
    /\ retval = "none"
    /\ raised = {}

\* the call returns the formatted text
Format ==
    /\ fmt.at = "called"
    /\ fmt' = [fmt EXCEPT !.at = "returned",
                          !.out = FormatValueWithUncertainty(variant, fmt.value,
                                      fmt.uncertainty_pct, fmt.extra_precision)]
    /\ UNCHANGED <<variant, lines, i, peak_data, loc, exc, pc, result, report,
                   summary_file, peaks_data, events,
                   admin, experiment_id, retval, raised>>

SpecFormat == InitFormat /\ [][Format]_vars

(***************************************************************************)
(* main of enhanced_gpc_automation (v1) and enhanced_gpc_automation_v2     *)
(*                                                                         *)
(* events holds the AstraAdmin method calls attempted so far, in order;    *)
(* raised holds the steps that raised an exception; pc names the step      *)
(* about to run.                                                           *)
(***************************************************************************)

EXPORT_XML_RESULTS == TRUE
EXPORT_CSV_DATASETS == TRUE
EXPORT_EXPERIMENT_FILE == TRUE
SHOW_MOLECULAR_WEIGHTS_IN_TERMINAL == TRUE

DATASET_EXPORTS == <<"masses vs volume", "rms radius vs volume">>

\* faulty variant: the results are saved before the experiment file
MainStepsSwapped(v) ==
    IF v = "v1"
    THEN <<"AstraAdmin", "set_automation_identity", "wait_for_instruments",
           "new_experiment_from_template", "start_collection",
           "wait_waiting_for_auto_inject", "wait_collection_started",
           "wait_collection_finished", "wait_experiment_run",
           "save_results", "extract", "save_experiment", "save_data_set", "return">>
    ELSE <<"AstraAdmin", "set_automation_identity", "wait_for_instruments",
           "collect_data", "os.path.exists", "open_experiment",
           "save_results", "extract", "save_data_set", "close_experiment", "return">>

\* the statements of the try block of main, in program order
MainSteps(v) ==
    IF v = "v1"
    THEN <<"AstraAdmin", "set_automation_identity", "wait_for_instruments",
           "new_experiment_from_template", "start_collection",
           "wait_waiting_for_auto_inject", "wait_collection_started",
           "wait_collection_finished", "wait_experiment_run">>
         \o (IF EXPORT_EXPERIMENT_FILE THEN <<"save_experiment">> ELSE <<>>)
         \o (IF EXPORT_XML_RESULTS THEN <<"save_results", "extract">> ELSE <<>>)
         \o (IF EXPORT_CSV_DATASETS THEN <<"save_data_set">> ELSE <<>>)
         \o <<"return">>
    ELSE <<"AstraAdmin", "set_automation_identity", "wait_for_instruments",
           "collect_data", "os.path.exists", "open_experiment">>
         \o (IF EXPORT_XML_RESULTS THEN <<"save_results", "extract">> ELSE <<>>)
         \o (IF EXPORT_CSV_DATASETS THEN <<"save_data_set">> ELSE <<>>)
         \o <<"close_experiment", "return">>

\* the statement after step s
RECURSIVE StepAfter(_, _, _)
StepAfter(steps, s, k) ==
    IF steps[k] = s THEN steps[k + 1] ELSE StepAfter(steps, s, k + 1)

After(v, s) == StepAfter(MainSteps(v), s, 1)

\* the AstraAdmin method calls of the try block that are under no inner
\* try: an exception they raise reaches 'except Exception as main_error'
UnguardedCalls ==
    {"set_automation_identity", "wait_for_instruments", "new_experiment_from_template",
     "start_collection", "wait_waiting_for_auto_inject", "wait_collection_started",
     "wait_collection_finished", "wait_experiment_run", "save_experiment",
     "collect_data", "open_experiment", "save_results", "close_experiment"}

\* the calls whose return value is bound to experiment_id
BindsExperiment(s) == s \in {"new_experiment_from_template", "open_experiment"}

\* number of calls of method s attempted so far
Attempts(s) == Cardinality({k \in DOMAIN events : events[k] = s})

\* the results documents main reads back
MainDocs ==
    {LinesOf(PlainSeq(S)) : S \in SUBSET (1..2)}
    \cup {LinesOf(<<Block("molar mass", "Mn", ScalarLine(UUP, "g/mol", T3, T1, Tabc))>>)}

InitMain ==
    /\ variant \in {"v1", "v2"}
    /\ lines \in MainDocs
    /\ i = 0
    /\ peak_data = EmptyTable
    /\ loc = NoLocals
    /\ exc = ""
    /\ pc = "makedirs"
    /\ result = EmptyTable
    /\ report = <<>>
    /\ summary_file = "none"
    /\ peaks_data = <<>>
    /\ fmt = NoCall
    /\ events = <<>>
    /\ admin = FALSE
    /\ experiment_id = None
    /\ retval = "none"
    /\ raised = {}

\* os.makedirs(run_results_folder) in its own try: a failure returns False
\* before admin is bound and before the try block with the finally clause
Makedirs ==
    /\ pc = "makedirs"
    /\ \E ok \in BOOLEAN :
          IF ok THEN pc' = "AstraAdmin" /\ retval' = retval /\ raised' = raised
          ELSE pc' = "exit" /\ retval' = "False" /\ raised' = raised \cup {"makedirs"}
    /\ UNCHANGED <<variant, lines, i, peak_data, loc, exc, result, report, summary_file,
                   peaks_data, fmt, events, admin, experiment_id>>

\* admin = AstraAdmin()
CreateAdmin ==
    /\ pc = "AstraAdmin"
    /\ \E ok \in BOOLEAN :
          IF ok THEN admin' = TRUE /\ pc' = After(variant, pc) /\ raised' = raised
          ELSE admin' = admin /\ pc' = "except" /\ raised' = raised \cup {pc}
    /\ UNCHANGED <<variant, lines, i, peak_data, loc, exc, result, report, summary_file,
                   peaks_data, fmt, events, experiment_id, retval>>

\* a method call of the try block under no inner try: it returns, or raises
\* into 'except Exception as main_error'
SessionCall ==
    /\ pc \in UnguardedCalls
    /\ events' = Append(events, pc)
    /\ \E ok \in BOOLEAN :
          IF ok
          THEN /\ experiment_id' = IF BindsExperiment(pc) THEN <<1>> ELSE experiment_id
               /\ pc' = After(variant, pc)
               /\ raised' = raised
          ELSE /\ experiment_id' = experiment_id
               /\ pc' = "except"
               /\ raised' = raised \cup {pc}
    /\ UNCHANGED <<variant, lines, i, peak_data, loc, exc, result, report, summary_file,
                   peaks_data, fmt, admin, retval>>

\* v2, step 5: if os.path.exists(experiment_path) ... else: return False
VerifyExperimentFile ==
    /\ pc = "os.path.exists"
    /\ \E exists \in BOOLEAN :
          IF exists THEN pc' = After(variant, pc) /\ retval' = retval
          ELSE pc' = "finally" /\ retval' = "False"
    /\ UNCHANGED <<variant, lines, i, peak_data, loc, exc, result, report, summary_file,
                   peaks_data, fmt, events, admin, experiment_id, raised>>

\* if os.path.exists(results_path): ... try: read the file, extract, display
\* or log 'no data'; except Exception as extract_error: log a warning
ShowMolecularWeights ==
    /\ pc = "extract"
    /\ \E exists \in BOOLEAN, readable \in BOOLEAN, written \in BOOLEAN :
          IF exists /\ SHOW_MOLECULAR_WEIGHTS_IN_TERMINAL /\ readable
          THEN /\ result' = ExtractPeakResults(variant, lines)
               /\ IF Truthy(ExtractPeakResults(variant, lines))
                  THEN /\ report' = SummaryLines(variant, ExtractPeakResults(variant, lines))
                       /\ summary_file' = IF written THEN "written" ELSE "failed"
                       /\ events' = events \o SaveSummary(written) \o <<"banner">>
                  ELSE UNCHANGED <<report, summary_file, events>>
               /\ raised' = raised
          ELSE /\ UNCHANGED <<result, report, summary_file, events>>
               /\ raised' = IF exists /\ SHOW_MOLECULAR_WEIGHTS_IN_TERMINAL
                            THEN raised \cup {"extract"} ELSE raised
    /\ pc' = After(variant, pc)
    /\ UNCHANGED <<variant, lines, i, peak_data, loc, exc, peaks_data, fmt, admin,
                   experiment_id, retval>>

\* one iteration of 'for dataset_name, description in DATASET_EXPORTS': the
\* call is in its own try, a False result or an exception is logged
SaveDataSet ==
    /\ pc = "save_data_set"
    /\ events' = Append(events, "save_data_set")
    /\ \E ok \in BOOLEAN :
          raised' = IF ok THEN raised ELSE raised \cup {"save_data_set"}
    /\ pc' = IF Attempts("save_data_set") + 1 >= Len(DATASET_EXPORTS)
             THEN After(variant, pc) ELSE pc
    /\ UNCHANGED <<variant, lines, i, peak_data, loc, exc, result, report, summary_file,
                   peaks_data, fmt, admin, experiment_id, retval>>

\* return True, at the end of the try block
ReturnTrue ==
    /\ pc = "return"
    /\ retval' = "True"
    /\ pc' = "finally"
    /\ UNCHANGED <<variant, lines, i, peak_data, loc, exc, result, report, summary_file,
                   peaks_data, fmt, events, admin, experiment_id, raised>>

\* except Exception as main_error: log(...); return False
ExceptMain ==
    /\ pc = "except"
    /\ retval' = "False"
    /\ pc' = "finally"
    /\ UNCHANGED <<variant, lines, i, peak_data, loc, exc, result, report, summary_file,
                   peaks_data, fmt, events, admin, experiment_id, raised>>

\* the finally clause of v1 closes the experiment; that of v2 does not
ClosesInFinally(v) == v = "v1"

\* faulty variant: an exception of close_experiment leaves the finally clause
CloseFailureEscapes(ok) == IF ok THEN "dispose" ELSE "exit"

\* try: admin.close_experiment(experiment_id) except Exception: log(...)
AfterClose(ok) == "dispose"

\* finally: if experiment_id is not None and admin is not None:
\*              try: admin.close_experiment(experiment_id) except Exception: log
FinallyClose ==
    /\ pc = "finally"
    /\ IF ClosesInFinally(variant) /\ experiment_id # None /\ admin
       THEN /\ events' = Append(events, "close_experiment")
            /\ \E ok \in BOOLEAN :
                  /\ raised' = IF ok THEN raised ELSE raised \cup {"close_experiment"}
                  /\ pc' = AfterClose(ok)
       ELSE /\ UNCHANGED <<events, raised>>
            /\ pc' = "dispose"
    /\ UNCHANGED <<variant, lines, i, peak_data, loc, exc, result, report, summary_file,
                   peaks_data, fmt, admin, experiment_id, retval>>

\* finally: if admin is not None: try: admin.dispose() except Exception: log
FinallyDispose ==
    /\ pc = "dispose"
    /\ IF admin
       THEN /\ events' = Append(events, "dispose")
            /\ \E ok \in BOOLEAN :
                  raised' = IF ok THEN raised ELSE raised \cup {"dispose"}
       ELSE UNCHANGED <<events, raised>>
    /\ pc' = "exit"
    /\ UNCHANGED <<variant, lines, i, peak_data, loc, exc, result, report, summary_file,
                   peaks_data, fmt, admin, experiment_id, retval>>

NextMain ==
    \/ Makedirs
    \/ CreateAdmin
    \/ SessionCall
    \/ VerifyExperimentFile
    \/ ShowMolecularWeights
    \/ SaveDataSet
    \/ ReturnTrue
    \/ ExceptMain
    \/ FinallyClose
    \/ FinallyDispose

SpecMain == InitMain /\ [][NextMain]_vars

(***************************************************************************)
(* Vocabulary of the properties                                            *)
(*                                                                         *)
(* The documents are made of three-line blocks followed by the empty last  *)
(* line; block j is lines 3j-2 .. 3j (counted from 1).                     *)
(***************************************************************************)

NumBlocks == (Len(lines) - 1) \div 3
Blocks == 1..NumBlocks
BlockAt(j) == SubSeq(lines, 3 * j - 2, 3 * j)

\* the document without block j
WithoutBlock(j) == SubSeq(lines, 1, 3 * j - 3) \o SubSeq(lines, 3 * j + 1, Len(lines))

\* the table of the document that holds block b only
Alone(v, b) == ExtractPeakResults(v, LinesOf(<<b>>))

HasEntry(t, p, n) == p \in DOMAIN t /\ n \in DOMAIN t[p]

\* every peak/name pair of u is a pair of t
Covers(t, u) == \A p \in DOMAIN u : \A n \in DOMAIN u[p] : HasEntry(t, p, n)

RecognizedType(b) ==
    b[1].kind = "result" /\ b[1].type \in {"molar mass", "polydispersity", "rms radius"}

\* the scalar line matches one of the two patterns of its branch
WithUnitsMatch(sl) == MatchUnitsUncPeak(sl) \/ MatchUnitsPeakUnc(sl)
NoUnitsMatch(sl) == MatchUncPeak(sl) \/ MatchPeakUnc(sl)

\* the block passes the marker test, the name filter and a scalar pattern
Recognized(v, b) ==
    \/ IsMolarMass(b[1]) /\ NameMatch(b[2]) /\ WithUnitsMatch(b[3])
    \/ IsPolydispersity(b[1]) /\ b[2].kind = "name" /\ b[2].name = "Mw/Mn"
         /\ NoUnitsMatch(b[3])
    \/ IsRmsRadius(v, b[1]) /\ b[2].kind = "name" /\ b[2].name = "rz"
         /\ WithUnitsMatch(b[3])

\* the name a recognized block is recorded under
KeyOf(b) == IF b[1].type = "polydispersity" THEN "Mw/Mn" ELSE b[2].name
PeakOf(b) == IntOf(b[3].peak)

NumericText(tok) == ParseFloat(tok).ok
ExactSentinel(b) == b[3].kind = "scalar" /\ b[3].text \in {NA, INVALID}

\* a numeric, non-zero value with a numeric uncertainty
WellFormed(v, b) ==
    /\ Recognized(v, b)
    /\ NumericText(b[3].uncertainty)
    /\ NumericText(b[3].text)
    /\ ~RatIsZero(ParseFloat(b[3].text).val)

\* value token neither numeric nor a sentinel, or non-numeric uncertainty
Malformed(v, b) ==
    /\ Recognized(v, b)
    /\ \/ ~NumericText(b[3].uncertainty)
       \/ ~NumericText(b[3].text) /\ Strip(b[3].text) \notin {NA, INVALID}

ZeroValued(v, b) ==
    /\ Recognized(v, b)
    /\ NumericText(b[3].uncertainty)
    /\ NumericText(b[3].text)
    /\ RatIsZero(ParseFloat(b[3].text).val)

\* pct = 100 * uncertainty / value, cross-multiplied
IsPctOf(pct, uncertainty, value) ==
    pct[1] * value[1] * uncertainty[2] = 100 * uncertainty[1] * value[2] * pct[2]

(***************************************************************************)
(* C1..C10                                                                 *)
(***************************************************************************)

\* C1: a malformed block (non-numeric value that is no sentinel, or
\* non-numeric uncertainty) is skipped and every valid block elsewhere in
\* the document keeps its entry in the returned table.
C1_MalformedBlockDoesNotAbort ==
    pc = "returned" =>
        \A j \in Blocks :
            Malformed(variant, BlockAt(j)) =>
                \A k \in Blocks \ {j} : Covers(result, Alone(variant, BlockAt(k)))

\* C2: a block of a recognized type whose scalar text is exactly "n/a" or
\* "~Invalid" leaves no entry for its peak/name pair in the returned table,
\* unless another block supplies that pair.
C2_SentinelBlockHasNoEntry ==
    pc = "returned" =>
        \A j \in Blocks :
            LET b == BlockAt(j)
            IN  (RecognizedType(b) /\ ExactSentinel(b) /\ PeakDigits(b[3])
                 /\ HasEntry(result, PeakOf(b), b[2].name))
                => \E k \in Blocks \ {j} :
                      HasEntry(Alone(variant, BlockAt(k)), PeakOf(b), b[2].name)

C2_Witness ==
    /\ pc = "returned"
    /\ result # EmptyTable
    /\ \E j \in Blocks :
          /\ Recognized(variant, BlockAt(j))
          /\ ExactSentinel(BlockAt(j))
          /\ ~HasEntry(result, PeakOf(BlockAt(j)), KeyOf(BlockAt(j)))

\* C3: in every extractor variant a block whose scalar text is "n/a" or
\* "~Invalid" is skipped on its own: the returned table is the table of the
\* document without that block.
C3_SentinelBlockSkippedOnItsOwn ==
    pc = "returned" =>
        \A j \in Blocks :
            (RecognizedType(BlockAt(j)) /\ ExactSentinel(BlockAt(j))
             /\ NumericText(BlockAt(j)[3].uncertainty))
            => result = ExtractPeakResults(variant, WithoutBlock(j))

\* the other attribute order of the same scalar line
SwapOrder(o) ==
    IF o = UUP THEN UPU ELSE IF o = UPU THEN UUP
    ELSE IF o = UP THEN PU ELSE IF o = PU THEN UP ELSE o

SwapScalar(b) == <<b[1], b[2], [b[3] EXCEPT !.order = SwapOrder(@)]>>

\* the document with the attributes of block j's scalar line in the other order
WithSwapped(j) ==
    [k \in 1..Len(lines) |->
        IF k = 3 * j THEN [lines[k] EXCEPT !.order = SwapOrder(@)] ELSE lines[k]]

\* t holds exactly one measurement, the one block b describes
IsMeasurementOf(t, b) ==
    /\ DOMAIN t = {PeakOf(b)}
    /\ DOMAIN t[PeakOf(b)] = {KeyOf(b)}
    /\ LET m == t[PeakOf(b)][KeyOf(b)]
           value == ParseFloat(b[3].text).val
       IN  /\ m.value = value
           /\ m.units = (IF b[1].type = "polydispersity" THEN "" ELSE b[3].units)
           /\ IsPctOf(m.uncertainty_pct, ParseFloat(b[3].uncertainty).val, value)

\* C4: a well-formed block yields exactly one measurement, with the same
\* value, units and uncertainty_pct, in either attribute order; swapping the
\* order inside a document leaves the returned table unchanged.
C4_OrderingInvariance ==
    pc = "returned" =>
        \A j \in Blocks :
            LET b == BlockAt(j)
                alone == Alone(variant, b)
            IN  WellFormed(variant, b) =>
                    /\ WellFormed(variant, SwapScalar(b))
                    /\ IsMeasurementOf(alone, b)
                    /\ Alone(variant, SwapScalar(b)) = alone
                    /\ ExtractPeakResults(variant, WithSwapped(j)) = result

C4_Witness ==
    /\ pc = "returned"
    /\ \E j \in Blocks :
          /\ WellFormed(variant, BlockAt(j))
          /\ BlockAt(j)[3].order = UPU
          /\ HasEntry(result, PeakOf(BlockAt(j)), KeyOf(BlockAt(j)))
    /\ \E j \in Blocks :
          /\ WellFormed(variant, BlockAt(j))
          /\ BlockAt(j)[3].order = PU
          /\ HasEntry(result, PeakOf(BlockAt(j)), KeyOf(BlockAt(j)))

\* some block of the document carries the numbers measurement m of peak p holds
FromSomeBlock(p, m) ==
    \E j \in Blocks :
        LET sl == lines[3 * j]
            value == ParseFloat(sl.text)
            uncertainty == ParseFloat(sl.uncertainty)
        IN  /\ PeakDigits(sl)
            /\ IntOf(sl.peak) = p
            /\ value.ok /\ m.value = value.val
            /\ uncertainty.ok
            /\ IsPctOf(m.uncertainty_pct, uncertainty.val, value.val)

PctHolds(t) ==
    \A p \in DOMAIN t : \A n \in DOMAIN t[p] :
        ~RatIsZero(t[p][n].value) => FromSomeBlock(p, t[p][n])

\* C5: every recorded measurement with non-zero value stores
\* uncertainty_pct = 100 * uncertainty / value, both numbers read from the
\* scalar line of one and the same block.
C5_PctIsHundredTimesRatio ==
    /\ pc = "scan" => PctHolds(peak_data)
    /\ pc = "returned" => PctHolds(result)

C5_Witness ==
    /\ pc = "returned"
    /\ \E p \in DOMAIN result : \E n \in DOMAIN result[p] :
          /\ result[p][n].value = <<5, 2>>
          /\ result[p][n].uncertainty_pct = <<120, 1>>

\* C6: a well-formed block whose value is exactly 0 is recorded (with
\* uncertainty_pct undefined), and the entries of all other valid blocks of
\* the document are retained.
C6_ZeroValueRecorded ==
    pc = "returned" =>
        \A j \in Blocks :
            ZeroValued(variant, BlockAt(j)) =>
                /\ HasEntry(result, PeakOf(BlockAt(j)), KeyOf(BlockAt(j)))
                /\ \A k \in Blocks \ {j} : Covers(result, Alone(variant, BlockAt(k)))

IsTable(t) ==
    \A p \in DOMAIN t :
        /\ p \in Nat
        /\ DOMAIN t[p] # {}
        /\ \A n \in DOMAIN t[p] :
              DOMAIN t[p][n] = {"value", "units", "uncertainty_pct"}

\* C7: extract_peak_results is total: each iteration either goes on or
\* raises an exception its handler catches, and the call returns a table.
C7_ExtractIsTotal ==
    /\ pc \in {"scan", "except", "returned", "displayed", "nodata"}
    /\ pc = "scan" => i <= Len(lines) /\ exc = ""
    /\ pc = "except" => exc # "" /\ CaughtByHandler(exc)
    /\ pc = "returned" => IsTable(result)
    /\ pc = "returned" /\ exc # "" => result = EmptyTable

C7_Witness ==
    /\ pc = "returned"
    /\ exc = "ZeroDivisionError"
    /\ result = EmptyTable
    /\ \E j \in Blocks : WellFormed(variant, BlockAt(j))

NoValidBlock == \A j \in Blocks : Alone(variant, BlockAt(j)) = EmptyTable

\* C8: for the empty document and for any document with no valid block the
\* returned table is empty; display_and_save_results is not invoked, no
\* peak section is emitted and no summary file is written.  (Stated by
\* contraposition: a non-empty table, a display, a report line or a summary
\* file occurs only for a document with a valid block.)
C8_EmptyTableNoReport ==
    (\/ pc \in {"returned", "displayed", "nodata"} /\ result # EmptyTable
     \/ pc = "displayed"
     \/ report # <<>>
     \/ summary_file # "none")
    => ~NoValidBlock

C8_Witness ==
    /\ pc = "nodata"
    /\ NoValidBlock
    /\ exc = ""
    /\ \E j \in Blocks : Recognized(variant, BlockAt(j))

Pairs(t) == {<<p, n>> : p \in DOMAIN t, n \in UNION {DOMAIN t[q] : q \in DOMAIN t}}
Entries(t) == {e \in Pairs(t) : HasEntry(t, e[1], e[2])}

\* an iteration keeps every entry, and one that records a new name changes none
KeepsEntries(old, new) ==
    /\ Entries(old) \subseteq Entries(new)
    /\ Entries(new) # Entries(old) =>
          \A e \in Entries(old) : new[e[1]][e[2]] = old[e[1]][e[2]]
    /\ Cardinality({e \in Entries(new) :
                      e \notin Entries(old) \/ new[e[1]][e[2]] # old[e[1]][e[2]]}) <= 1

\* C9: blocks sharing a peak accumulate: after a sequence of valid blocks the
\* table holds an entry for every recorded name of every peak, and recording
\* a new name never removes or changes an entry already stored.
C9_Accumulate ==
    /\ [](pc = "returned" /\ (\A j \in Blocks : WellFormed(variant, BlockAt(j)))
          => \A j \in Blocks :
                HasEntry(result, PeakOf(BlockAt(j)), KeyOf(BlockAt(j))))
    /\ [][pc = "scan" => KeepsEntries(peak_data, peak_data')]_vars

C9_Witness ==
    /\ pc = "returned"
    /\ \A j \in Blocks : WellFormed(variant, BlockAt(j))
    /\ \E p \in DOMAIN result : Cardinality(DOMAIN result[p]) = 3

\* a scalar line the rms radius branch records
ValidWithUnits(v, sl) ==
    /\ WithUnitsMatch(sl)
    /\ NumericText(sl.uncertainty)
    /\ NumericText(sl.text)
    /\ ~RatIsZero(ParseFloat(sl.text).val)

OnRmsMarker ==
    pc = "scan" /\ i < Len(lines) /\ HasMarker(LineAt(lines, i), "rms radius")

\* C10: an rms radius block named anything but rz adds no entry, whatever
\* its peak and scalar; one named rz with a valid scalar adds
\* ResultTable[peak]['rz'].
C10_RmsOnlyRz ==
    /\ [][OnRmsMarker /\ HasTwoMore(lines, i) =>
            IF LineAt(lines, i + 1).name = "rz"
            THEN ValidWithUnits(variant, LineAt(lines, i + 2)) =>
                    /\ HasEntry(peak_data', IntOf(LineAt(lines, i + 2).peak), "rz")
                    /\ peak_data'[IntOf(LineAt(lines, i + 2).peak)]["rz"].value =
                          ParseFloat(LineAt(lines, i + 2).text).val
            ELSE peak_data' = peak_data /\ exc' = ""]_vars
    /\ [](pc = "returned" =>
            \A j \in Blocks :
                (BlockAt(j)[1].type = "rms radius" /\ BlockAt(j)[2].name # "rz"
                 /\ PeakDigits(BlockAt(j)[3])
                 /\ HasEntry(result, PeakOf(BlockAt(j)), BlockAt(j)[2].name))
                => \E k \in Blocks \ {j} :
                      HasEntry(Alone(variant, BlockAt(k)), PeakOf(BlockAt(j)),
                               BlockAt(j)[2].name))

C10_Witness ==
    /\ pc = "returned"
    /\ HasEntry(result, 2, "rz")
    /\ \E j \in Blocks :
          /\ BlockAt(j)[1].type = "rms radius"
          /\ BlockAt(j)[2].name = "rw"
          /\ ValidWithUnits(variant, BlockAt(j)[3])

(***************************************************************************)
(* C11..C20                                                                *)
(***************************************************************************)

\* a scalar line the polydispersity branch records
ValidNoUnits(sl) ==
    /\ NoUnitsMatch(sl)
    /\ NumericText(sl.uncertainty)
    /\ NumericText(sl.text)
    /\ ~RatIsZero(ParseFloat(sl.text).val)

OnPolydispersityMarker ==
    pc = "scan" /\ i < Len(lines) /\ IsPolydispersity(LineAt(lines, i))

\* the entries an iteration adds or changes
Touched(old, new) ==
    {e \in Entries(new) : e \notin Entries(old) \/ new[e[1]][e[2]] # old[e[1]][e[2]]}

\* C11: a polydispersity block is recorded only when its name is Mw/Mn,
\* always under the key 'Mw/Mn' and with units '', whatever attributes its
\* scalar line carries; a polydispersity block with another name adds nothing.
C11_PolydispersityOnlyMwMn ==
    /\ [][OnPolydispersityMarker /\ HasTwoMore(lines, i) =>
            IF LineAt(lines, i + 1).name = "Mw/Mn"
            THEN /\ \A e \in Touched(peak_data, peak_data') :
                       e[2] = "Mw/Mn" /\ peak_data'[e[1]][e[2]].units = ""
                 /\ ValidNoUnits(LineAt(lines, i + 2)) =>
                       /\ HasEntry(peak_data', IntOf(LineAt(lines, i + 2).peak), "Mw/Mn")
                       /\ peak_data'[IntOf(LineAt(lines, i + 2).peak)]["Mw/Mn"].units = ""
            ELSE peak_data' = peak_data /\ exc' = ""]_vars
    /\ [](pc = "returned" =>
            \A j \in Blocks :
                BlockAt(j)[1].type = "polydispersity" =>
                    LET alone == Alone(variant, BlockAt(j))
                    IN  /\ alone # EmptyTable => BlockAt(j)[2].name = "Mw/Mn"
                        /\ \A e \in Entries(alone) :
                              e[2] = "Mw/Mn" /\ alone[e[1]][e[2]].units = "")

C11_Witness ==
    /\ pc = "returned"
    /\ \E j \in Blocks :
          /\ BlockAt(j)[1].type = "polydispersity"
          /\ BlockAt(j)[2].name = "Mw/Mn"
          /\ BlockAt(j)[3].order = UUP
          /\ BlockAt(j)[3].units = "g/mol"
          /\ HasEntry(result, PeakOf(BlockAt(j)), "Mw/Mn")
          /\ result[PeakOf(BlockAt(j))]["Mw/Mn"].units = ""

\* the scalar line carries uncertainty and peak attributes but no units
NoUnitsAttr(sl) ==
    /\ sl.kind = "scalar"
    /\ AttrPos(sl.order, "units", 1) = 0
    /\ AttrPos(sl.order, "uncertainty", 1) > 0
    /\ AttrPos(sl.order, "peak", 1) > 0
    /\ PeakDigits(sl)

TakesUnits(b) ==
    \/ IsMolarMass(b[1]) /\ NameMatch(b[2])
    \/ HasMarker(b[1], "rms radius") /\ b[2].kind = "name" /\ b[2].name = "rz"

\* C12: a molar mass or rms radius/rz block whose scalar line has
\* uncertainty and peak attributes and a numeric value but no units
\* attribute is recorded, with units equal to the empty string.
C12_MissingUnitsDefaultsToEmpty ==
    pc = "returned" =>
        \A j \in Blocks :
            LET b == BlockAt(j)
                alone == Alone(variant, b)
            IN  (/\ TakesUnits(b)
                 /\ NoUnitsAttr(b[3])
                 /\ NumericText(b[3].uncertainty)
                 /\ NumericText(b[3].text)
                 /\ ~RatIsZero(ParseFloat(b[3].text).val))
                => /\ HasEntry(alone, PeakOf(b), b[2].name)
                   /\ alone[PeakOf(b)][b[2].name].units = ""

\* the permutations of the blocks of the document
Perms == {f \in [Blocks -> Blocks] : \A a, b \in Blocks : a # b => f[a] # f[b]}

\* the document with its blocks in the order f
Permuted(f) == Flatten([j \in Blocks |-> BlockAt(f[j])]) \o <<TextLine>>

\* the per-peak records of a list, whatever the order of the list
PerPeak(pd) == {pd[k] : k \in 1..Len(pd)}

\* the blocks with a numeric value have pairwise distinct peak/name pairs
DistinctPairs ==
    \A j, k \in Blocks :
        (j # k /\ NumericText(BlockAt(j)[3].text) /\ NumericText(BlockAt(k)[3].text)
         /\ BlockAt(j)[1].type = BlockAt(k)[1].type)
        => <<PeakOf(BlockAt(j)), BlockAt(j)[2].name>> # <<PeakOf(BlockAt(k)), BlockAt(k)[2].name>>

\* C13: for documents whose valid blocks have pairwise distinct peak/name
\* pairs, permuting the blocks leaves the extracted per-peak data unchanged,
\* for extract_peak_results and for extract_molecular_weights_from_xml; a
\* polydispersity block yields the PDI of its peak whether it comes before
\* or after the molar mass blocks of that peak.
C13_BlockOrderIndependence ==
    (pc = "returned" /\ DistinctPairs) =>
        \A f \in Perms :
            /\ ExtractPeakResults("v2", Permuted(f)) = ExtractPeakResults("v2", lines)
            /\ PerPeak(ExtractMolecularWeightsFromXml(Permuted(f))) = PerPeak(peaks_data)

\* the text up to the first blank, and the text between " (+-" and "%)"
ValuePart(out) == SubSeq(out, 1, CharPos(out, {" "}, 1) - 1)
PctPart(out) == SubSeq(out, CharPos(out, {" "}, 1) + 3, Len(out) - 2)

\* digits, a point and exactly k digits, with an optional minus sign
IsFixedText(s, k) ==
    LET u == Unsigned(s)
        dot == CharPos(u, {"."}, 1)
    IN  /\ (s = u \/ Head(s) = "-")
        /\ dot >= 2
        /\ Len(u) = dot + k
        /\ AllDigits(SubSeq(u, 1, dot - 1))
        /\ AllDigits(SubSeq(u, dot + 1, Len(u)))

\* d.ddde+XX: one mantissa digit, three fractional digits, signed exponent
IsSciText(s) ==
    /\ Len(s) >= 9
    /\ s[1] \in Digits \ {"0"}
    /\ s[2] = "."
    /\ AllDigits(SubSeq(s, 3, 5))
    /\ s[6] = "e"
    /\ s[7] \in {"+", "-"}
    /\ AllDigits(SubSeq(s, 8, Len(s)))

\* |a - b| <= n/d for rationals a, b
Within(a, b, n, d) == Abs(a[1] * b[2] - b[1] * a[2]) * d <= n * a[2] * b[2]

\* the text reads back as the number, to half a unit of its last digit
ReadsBackFixed(s, r, k) == ParseFloat(s).ok /\ Within(ParseFloat(s).val, r, 1, 2 * Pow10(k))

ReadsBackSci(s, r) ==
    /\ ParseFloat(s).ok
    /\ Within(ParseFloat(s).val, r, Pow10(IntOf(SubSeq(s, 8, Len(s)))), 2000)

\* C14: format_value_with_uncertainty renders the value in scientific
\* notation with 3 fractional mantissa digits exactly when value >= 1000
\* (1000 included), and in fixed notation with exactly 1 fractional digit for
\* every value < 1000 (zero and negative values included).
C14_ScientificFromThousand ==
    fmt.at = "returned" =>
        IF fmt.value[1] >= 1000 * fmt.value[2]
        THEN /\ IsSciText(ValuePart(fmt.out))
             /\ ReadsBackSci(ValuePart(fmt.out), fmt.value)
        ELSE /\ IsFixedText(ValuePart(fmt.out), 1)
             /\ ReadsBackFixed(ValuePart(fmt.out), fmt.value, 1)

C14_Witness ==
    /\ fmt.at = "returned"
    /\ fmt.value = <<1000, 1>>
    /\ ValuePart(fmt.out) = <<"1", ".", "0", "0", "0", "e", "+", "0", "3">>

\* the precision a call requests: extended with extra_precision, else standard
Requested(extra_precision) == IF extra_precision THEN 3 ELSE 1

ReportLines == {k \in 1..Len(report) : report[k].kind = "line"}

\* C16: in every report renderer the Mw/Mn line renders its uncertainty with
\* 3 fractional digits and the Mn, Mw, Mp and rz lines render theirs with 1.
C16_PrecisionPresets ==
    pc = "displayed" =>
        \A k \in ReportLines :
            /\ report[k].key = "Mw/Mn" => IsFixedText(PctPart(report[k].text), 3)
            /\ report[k].key \in {"Mn", "Mw", "Mp", "rz"} =>
                  IsFixedText(PctPart(report[k].text), 1)

\* the positions of the report that belong to the section of peak p
SectionOf(p) == {k \in 1..Len(report) : report[k].peak = p /\ report[k].kind # "banner"
                                        /\ report[k].kind # "title"}

\* the section of peak p holds a measurement line for key n
HasLine(p, n) == \E k \in SectionOf(p) : report[k].kind = "line" /\ report[k].key = n

\* C17: for the document with Mn (peak 1, 15000 g/mol, uncertainty 300), Mw
\* (peak 1, 30000, uncertainty 600) and Mw/Mn (peak 1, 2.0, uncertainty
\* 0.04), the Peak 1 section of the report holds both mass-moment lines and
\* a polydispersity line whose measurement text is "2.000 (+-2.000%)".
C17_EndToEnd ==
    (pc = "displayed" /\ lines = LinesOf(EndToEnd)) =>
        /\ \E k \in SectionOf(1) : report[k].kind = "peak"
        /\ HasLine(1, "Mn")
        /\ HasLine(1, "Mw")
        /\ \E k \in SectionOf(1) :
              /\ report[k].kind = "line"
              /\ report[k].key = "Mw/Mn"
              /\ report[k].text = <<"2", ".", "0", "0", "0", " ", "(", PlusMinus,
                                    "2", ".", "0", "0", "0", "%", ")">>

\* the positions of the 'Peak N' headers of the report
PeakHeads == {k \in 1..Len(report) : report[k].kind = "peak"}

\* C18: the report has exactly one 'Peak N' section per key of the table, in
\* strictly ascending order of peak index, whatever order the peaks were
\* discovered in and whether or not the indices are contiguous.
C18_OneSectionPerPeakAscending ==
    pc = "displayed" =>
        /\ {report[k].peak : k \in PeakHeads} = DOMAIN result
        /\ Cardinality(PeakHeads) = Cardinality(DOMAIN result)
        /\ \A a, b \in PeakHeads : a < b => report[a].peak < report[b].peak

\* peak 2 is discovered before peak 0 and there is no peak 1
C18_Witness ==
    /\ pc = "displayed"
    /\ DOMAIN result = {0, 2}
    /\ \E j, k \in Blocks :
          /\ j < k
          /\ WellFormed(variant, BlockAt(j)) /\ PeakOf(BlockAt(j)) = 2
          /\ WellFormed(variant, BlockAt(k)) /\ PeakOf(BlockAt(k)) = 0
    /\ \E a, b \in PeakHeads : a < b /\ report[a].peak = 0 /\ report[b].peak = 2

\* the place of a report item in the fixed order of a peak section; 0 for
\* the items the order does not concern (blank lines, peak header, divider)
Rank(it) ==
    CASE it.kind = "heading" /\ it.key = "Molar mass moments" -> 1
      [] it.kind = "line" /\ it.key = "Mn" -> 2
      [] it.kind = "line" /\ it.key = "Mw" -> 3
      [] it.kind = "line" /\ it.key = "Mp" -> 4
      [] it.kind = "heading" /\ it.key = "Polydispersity" -> 5
      [] it.kind = "line" /\ it.key = "Mw/Mn" -> 6
      [] it.kind = "heading" /\ it.key = "RMS radius moments" -> 7
      [] it.kind = "line" /\ it.key = "rz" -> 8
      [] OTHER -> 0

\* C19: within each peak section the mass-moment lines appear in the order
\* Mn, Mw, Mp (only those present in the record), then the polydispersity
\* section, then the RMS radius section, whatever the insertion order of the
\* names in the record.
C19_FixedOrderInSection ==
    pc = "displayed" =>
        \A p \in DOMAIN result :
            /\ \A a, b \in SectionOf(p) :
                  (a < b /\ Rank(report[a]) > 0 /\ Rank(report[b]) > 0)
                  => Rank(report[a]) < Rank(report[b])
            /\ \A n \in {"Mn", "Mw", "Mp", "Mw/Mn", "rz"} :
                  HasLine(p, n) <=> n \in DOMAIN result[p]
            /\ \A k \in SectionOf(p) :
                  report[k].kind = "line" =>
                      report[k].key \in {"Mn", "Mw", "Mp", "Mw/Mn", "rz"}

\* Mp is inserted before Mn and Mw, and all three lines are in the section
C19_Witness ==
    /\ pc = "displayed"
    /\ \E p \in DOMAIN result :
          /\ {"Mn", "Mw", "Mp"} \subseteq DOMAIN result[p]
          /\ HasLine(p, "Mn") /\ HasLine(p, "Mw") /\ HasLine(p, "Mp")
    /\ \E j, k \in Blocks :
          j < k /\ BlockAt(j)[2].name = "Mp" /\ BlockAt(k)[2].name = "Mn"

\* a measurement line follows heading k before the next heading or peak header
HasLineBeneath(k) ==
    \E m \in (k + 1)..Len(report) :
        /\ report[m].kind = "line"
        /\ \A h \in (k + 1)..(m - 1) : report[h].kind \notin {"heading", "peak"}

\* C20: the report never contains an empty heading: the 'Molar mass
\* moments', 'Polydispersity' and 'RMS radius moments' headings are emitted
\* only with at least one measurement line beneath them (a record holding
\* only Mz produces no mass-moment heading).
C20_NoEmptyHeading ==
    pc = "displayed" =>
        \A k \in 1..Len(report) : report[k].kind = "heading" => HasLineBeneath(k)

\* number of occurrences of event e in the sequence seq
Count(seq, e) == Cardinality({k \in DOMAIN seq : seq[k] = e})

\* C21: display_and_save_results opens the summary file exactly once; when
\* the open or write fails the warning is logged once, nothing is saved or
\* retried, no exception reaches the caller, and the function runs to its
\* closing banner with a section for every peak already displayed.
C21_SummaryWriteAttemptedOnce ==
    (pc = "displayed" /\ variant \in {"v2", "v1"}) =>
        /\ Count(events, "open") = 1
        /\ summary_file = "failed" =>
              /\ Count(events, "log warning") = 1
              /\ Count(events, "log saved") = 0
        /\ summary_file = "written" => Count(events, "log warning") = 0
        /\ events[Len(events)] = "banner"
        /\ exc = ""
        /\ {report[k].peak : k \in PeakHeads} = DOMAIN result

\* the write failed for a table of two peaks
C21_Witness ==
    /\ pc = "displayed"
    /\ summary_file = "failed"
    /\ Cardinality(DOMAIN result) = 2
    /\ Count(events, "open") = 1

\* the loop is on a line with one of the three enumerated markers
OnMarker ==
    /\ pc = "scan" /\ i < Len(lines)
    /\ LineAt(lines, i).type \in {"molar mass", "polydispersity", "rms radius"}

\* the marker of line k lacks two following lines
CutShort(ls, k) == k + 2 >= Len(ls)

\* the line after the marker of line k has no <name> element
NoNameTag(ls, k) == k + 2 < Len(ls) /\ LineAt(ls, k + 1).name = ""

\* the second line after the marker of line k matches neither pattern of
\* the marker's branch
NeitherOrdering(ls, k) ==
    /\ k + 2 < Len(ls) /\ LineAt(ls, k + 1).name # ""
    /\ LET sl == LineAt(ls, k + 2)
       IN  IF LineAt(ls, k).type = "polydispersity"
           THEN ~(Before(sl, "uncertainty", "peak") \/ Before(sl, "peak", "uncertainty"))
           ELSE ~(\/ Before(sl, "units", "uncertainty") /\ Before(sl, "uncertainty", "peak")
                  \/ Before(sl, "units", "peak") /\ Before(sl, "peak", "uncertainty"))

\* C22: a recognized marker that is on the last or second-to-last line, or
\* whose next line has no <name> tag, or whose scalar line matches neither
\* attribute ordering, is abandoned silently: the iteration adds no entry,
\* raises nothing, keeps every entry of the table and the loop goes on.
C22_IncompleteBlockAbandoned ==
    [][(OnMarker /\ (CutShort(lines, i) \/ NoNameTag(lines, i) \/ NeitherOrdering(lines, i)))
          => (peak_data' = peak_data /\ exc' = "" /\ pc' = "scan" /\ i' = i + 1)]_vars

\* a table with an entry recorded before a name-less marker and one after it
C22_Witness ==
    /\ pc = "returned"
    /\ Cardinality(Entries(result)) = 2
    /\ \E k \in 3..(Len(lines) - 4) :
          /\ LineAt(lines, k).type \in {"molar mass", "polydispersity", "rms radius"}
          /\ NoNameTag(lines, k)

\* the three lines starting at line k, taken as a block
BlockFrom(ls, k) == <<LineAt(ls, k), LineAt(ls, k + 1), LineAt(ls, k + 2)>>

\* C23: the cursor advances exactly one line per iteration and reaches every
\* index 0..len-1, lines already read as the name or scalar line of an
\* earlier block included: a block whose marker is at line i+1 or i+2 of a
\* block started at line i is recorded as it would be on its own.
C23_EveryLineIsABlockStart ==
    /\ [][(pc = "scan" /\ pc' = "scan") => i' = i + 1]_vars
    /\ [](pc = "scan" => i \in 0..Len(lines))
    /\ []((pc = "returned" /\ exc = "") =>
            /\ i = Len(lines)
            /\ \A k \in 0..(Len(lines) - 3) :
                  Covers(result, Alone(variant, BlockFrom(lines, k))))

\* a recorded block whose marker is on the name line or on the scalar line
\* of another recorded block
C23_Witness ==
    /\ pc = "returned"
    /\ \E k \in 1..(Len(lines) - 3) :
          /\ LineAt(lines, k).type \in {"molar mass", "polydispersity", "rms radius"}
          /\ LineAt(lines, k).name # "" \/ LineAt(lines, k).order # <<>>
          /\ Cardinality(Entries(Alone(variant, BlockFrom(lines, k)))) = 1
          /\ Cardinality(Entries(result)) = 2

\* the line holds none of the three enumerated markers
Unmarked(l) == l.type \notin {"molar mass", "polydispersity", "rms radius"}

\* C24: an iteration on a line without one of the three recognized markers
\* leaves the table unchanged and raises nothing; a block with another type
\* tag, a name line and a well-formed scalar line adds no entry: the table
\* is that of the document without the block.
C24_UnmarkedLineChangesNothing ==
    /\ [][(pc = "scan" /\ i < Len(lines) /\ Unmarked(LineAt(lines, i)))
             => (peak_data' = peak_data /\ exc' = "" /\ pc' = "scan")]_vars
    /\ [](pc = "returned" =>
            \A j \in Blocks :
                (BlockAt(j)[1].type # "" /\ Unmarked(BlockAt(j)[1])) =>
                    result = ExtractPeakResults(variant, WithoutBlock(j)))

\* a 'mass fraction' block named Mn with a valid scalar line of peak 1, in a
\* document whose table has an entry of peak 1 but none named Mn
C24_Witness ==
    /\ pc = "returned"
    /\ \E j \in Blocks :
          /\ BlockAt(j)[1].type = "mass fraction"
          /\ BlockAt(j)[2].name = "Mn"
          /\ ValidWithUnits(variant, BlockAt(j)[3])
          /\ PeakOf(BlockAt(j)) = 1
    /\ 1 \in DOMAIN result
    /\ ~HasEntry(result, 1, "Mn")

\* blocks j and k are recorded under the same peak and name
SamePair(j, k) ==
    /\ PeakOf(BlockAt(j)) = PeakOf(BlockAt(k))
    /\ KeyOf(BlockAt(j)) = KeyOf(BlockAt(k))

\* the measurement block b stores when it is alone in a document
MeasurementOf(v, b) == Alone(v, b)[PeakOf(b)][KeyOf(b)]

\* C25: upsert is last-writer-wins: in a document of valid blocks where two
\* blocks carry the same peak index and recorded name, the table holds for
\* that pair the value, units and uncertainty_pct of the later block; the
\* iteration that records a pair already in the table replaces that entry
\* and adds none.
C25_LastWriterWins ==
    /\ []((pc = "returned" /\ \A j \in Blocks : WellFormed(variant, BlockAt(j))) =>
            \A j, k \in Blocks :
                (j < k /\ SamePair(j, k) /\ \A m \in Blocks : m > k => ~SamePair(k, m)) =>
                    /\ HasEntry(result, PeakOf(BlockAt(k)), KeyOf(BlockAt(k)))
                    /\ result[PeakOf(BlockAt(k))][KeyOf(BlockAt(k))]
                          = MeasurementOf(variant, BlockAt(k)))
    /\ [][(pc = "scan" /\ i + 2 < Len(lines)
             /\ WellFormed(variant, BlockFrom(lines, i))
             /\ HasEntry(peak_data, PeakOf(BlockFrom(lines, i)), KeyOf(BlockFrom(lines, i))))
          => /\ Entries(peak_data') = Entries(peak_data)
             /\ peak_data'[PeakOf(BlockFrom(lines, i))][KeyOf(BlockFrom(lines, i))]
                   = MeasurementOf(variant, BlockFrom(lines, i))]_vars

\* two valid blocks of one pair with different values, in a returned table
\* that holds the value of the later one and not that of the earlier one
C25_Witness ==
    /\ pc = "returned"
    /\ \A j \in Blocks : WellFormed(variant, BlockAt(j))
    /\ \E j, k \in Blocks :
          /\ j < k /\ SamePair(j, k)
          /\ MeasurementOf(variant, BlockAt(j)) # MeasurementOf(variant, BlockAt(k))
          /\ result[PeakOf(BlockAt(k))][KeyOf(BlockAt(k))] = MeasurementOf(variant, BlockAt(k))

\* every peak key of table t maps to a record with at least one name
NoEmptyRecord(t) == \A p \in DOMAIN t : DOMAIN t[p] # {}

\* C26: every peak key of the table, while it is built and when it is
\* returned, maps to a non-empty record: a step that creates a peak key
\* stores a measurement under it. Hence the callers' test 'if peak_data'
\* takes the display branch exactly when the returned table holds a
\* measurement, and the no-data branch exactly when it holds none.
C26_NoEmptyPeakRecord ==
    /\ [](NoEmptyRecord(peak_data) /\ NoEmptyRecord(result))
    /\ [][\A p \in DOMAIN peak_data' \ DOMAIN peak_data :
              \E n \in DOMAIN peak_data'[p] :
                  DOMAIN peak_data'[p][n] = {"value", "units", "uncertainty_pct"}]_vars
    /\ [](pc = "displayed" => Entries(result) # {})
    /\ [](pc = "nodata" => Entries(result) = {})

\* the only block of peak 1 holds a sentinel and the table of the other
\* blocks is displayed without a record for peak 1
C26_Witness ==
    /\ pc = "displayed"
    /\ 1 \notin DOMAIN result
    /\ \E j \in Blocks :
          /\ Recognized(variant, BlockAt(j))
          /\ PeakOf(BlockAt(j)) = 1
          /\ ExactSentinel(BlockAt(j))

\* measurement m under peak p is the one the scalar line sl describes, with
\* units '' when the marker line l is a polydispersity marker
WrittenFrom(p, m, l, sl) ==
    /\ Len(sl.peak) >= 1 /\ AllDigits(sl.peak) /\ p = IntOf(sl.peak)
    /\ ParseFloat(Strip(sl.text)).ok
    /\ m.value = ParseFloat(Strip(sl.text)).val
    /\ m.units = (IF l.type = "polydispersity" THEN "" ELSE sl.units)
    /\ ParseFloat(sl.uncertainty).ok
    /\ IsPctOf(m.uncertainty_pct, ParseFloat(sl.uncertainty).val, m.value)

\* C27: no stale captures: every entry an iteration writes carries the
\* peak, units, uncertainty and value of the scalar line two lines below
\* the marker being processed, and when neither attribute-ordering pattern
\* matches that line the iteration writes nothing, also when an earlier
\* block left the loop variables bound.
C27_NoStaleCaptures ==
    /\ [][(pc = "scan" /\ i < Len(lines)) =>
             \A e \in Touched(peak_data, peak_data') :
                 /\ i + 2 < Len(lines)
                 /\ WrittenFrom(e[1], peak_data'[e[1]][e[2]],
                                LineAt(lines, i), LineAt(lines, i + 2))]_vars
    /\ [][(OnMarker /\ NeitherOrdering(lines, i) /\ loc.peak_num # Unbound)
             => peak_data' = peak_data]_vars

\* the loop has passed a block neither pattern matches while the locals of
\* an earlier, recorded block were bound
C27_Witness ==
    /\ pc = "scan" /\ i >= 4
    /\ LineAt(lines, i - 1).type \in {"molar mass", "polydispersity", "rms radius"}
    /\ NeitherOrdering(lines, i - 1)
    /\ loc.peak_num # Unbound /\ loc.value_str # Unbound /\ loc.uncertainty # Unbound
    /\ Truthy(peak_data)

\* positions of the calls of method s among the events
CallsOf(s) == {k \in DOMAIN events : events[k] = s}

\* C28: in enhanced_gpc_automation.main, on every exit path after the
\* AstraAdmin object was created, dispose is attempted exactly once and is
\* the last session call; if an experiment was created close_experiment is
\* attempted, once, before dispose, also when close_experiment fails; no
\* dispose is attempted before the finally clause.
C28_DisposeLastOnEveryPath ==
    (variant = "v1" /\ admin) =>
        /\ pc \notin {"exit"} => CallsOf("dispose") = {}
        /\ pc = "exit" =>
              /\ CallsOf("dispose") = {Len(events)}
              /\ experiment_id # None =>
                    /\ Cardinality(CallsOf("close_experiment")) = 1
                    /\ \A k \in CallsOf("close_experiment") : k < Len(events)
              /\ experiment_id = None => CallsOf("close_experiment") = {}

\* save_results raised, then close_experiment raised, and dispose was called
C28_Witness ==
    /\ variant = "v1" /\ pc = "exit" /\ retval = "False"
    /\ {"save_results", "close_experiment"} \subseteq raised
    /\ events[Len(events)] = "dispose"

\* C29: in enhanced_gpc_automation_v2.main, whenever open_experiment has
\* succeeded, close_experiment is called for that experiment before dispose
\* on every exit path, also when save_results or a later step raises.
C29_CloseBeforeDisposeV2 ==
    (variant = "v2" /\ pc = "exit" /\ experiment_id # None) =>
        /\ CallsOf("dispose") = {Len(events)}
        /\ CallsOf("close_experiment") # {}
        /\ \A k \in CallsOf("close_experiment") : k < Len(events)

\* the session calls of the workflow in the order of the description
WorkflowOrder ==
    <<"set_automation_identity", "wait_for_instruments", "new_experiment_from_template",
      "start_collection", "wait_waiting_for_auto_inject", "wait_collection_started",
      "wait_collection_finished", "wait_experiment_run", "save_experiment",
      "save_results", "save_data_set">>

\* position of call s in the workflow, 0 for any other event
WorkflowRank(s) ==
    IF \E k \in DOMAIN WorkflowOrder : WorkflowOrder[k] = s
    THEN CHOOSE k \in DOMAIN WorkflowOrder : WorkflowOrder[k] = s
    ELSE 0

\* the steps up to save_results
UpToSaveResults == {WorkflowOrder[k] : k \in 1..10}

\* C30: in enhanced_gpc_automation.main the session calls occur only in the
\* workflow order, each once except save_data_set; a step up to
\* save_results that raises is the last workflow call and main returns
\* False; with none of them raising main returns True, also when the
\* extraction or a CSV export failed.
C30_WorkflowOrder ==
    variant = "v1" =>
        /\ \A a, b \in DOMAIN events :
              (a < b /\ WorkflowRank(events[a]) > 0 /\ WorkflowRank(events[b]) > 0) =>
                  \/ WorkflowRank(events[a]) < WorkflowRank(events[b])
                  \/ events[a] = "save_data_set" /\ events[b] = "save_data_set"
        /\ \A s \in UpToSaveResults \cap raised :
              /\ \A k \in DOMAIN events : WorkflowRank(events[k]) <= WorkflowRank(s)
              /\ pc \in {"except", "finally", "dispose", "exit"}
              /\ pc # "except" => retval = "False"
        /\ (pc = "exit" /\ raised \cap (UpToSaveResults \cup {"makedirs", "AstraAdmin"}) = {})
              => /\ retval = "True"
                 /\ \A k \in DOMAIN WorkflowOrder : CallsOf(WorkflowOrder[k]) # {}
                 /\ Cardinality(CallsOf("save_data_set")) = Len(DATASET_EXPORTS)

\* a run that returned True although the extraction and a CSV export failed
C30_Witness ==
    /\ variant = "v1" /\ pc = "exit" /\ retval = "True"
    /\ {"extract", "save_data_set"} \subseteq raised

====
